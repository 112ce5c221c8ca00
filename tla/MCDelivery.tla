----------------------------- MODULE MCDelivery -----------------------------
(***************************************************************************)
(* Small instances of Delivery, each case with its own views and faults, so  *)
(* that their state spaces add up instead of multiplying.                    *)
(***************************************************************************)
EXTENDS Delivery

CONSTANTS n1, n2, me, i1, a, b

MCPeers == {n1, n2}
P == <<n1, i1>>
Q == <<n2, i1>>
Sibling == <<n2, me>>
MCContacts == {P, Q, Sibling}
MCIdentities == {a, b}

Lists(contacts, by) ==
    [listed |-> contacts, nodes |-> {c[1] : c \in contacts}, members |-> {me, i1},
     departed |-> FALSE, nobody |-> FALSE, by |-> by]
Left(contacts, by) == [Lists(contacts, by) EXCEPT !.members = {i1}, !.departed = TRUE]
Nobody == [Lists({}, "start") EXCEPT !.members = {}, !.nobody = TRUE]

Still == [passes |-> 0, devices |-> 0, imports |-> 0, fails |-> 0, cuts |-> 0, misses |-> 0,
          accepts |-> 0, ups |-> 0, downs |-> 0, reports |-> 0, ends |-> 0, lags |-> 0]
CoStill == [writes |-> 0, fails |-> 0, cuts |-> 0, passes |-> 0, stores |-> {"m"}]

Base == [views |-> <<Lists({P}, "start")>>, ticketed |-> {P}, draws |-> 2, recurring |-> FALSE,
         reachable |-> {<<"m", P>>},
         may |-> Still, co |-> CoStill]

\* The view changes by a session and by a write while the pass derives too, and a dial
\* may come to nothing.
Deriving == [Base EXCEPT !.views = <<Nobody, Lists({P}, "session"), Lists({P, Q}, "write")>>,
                         !.may = [Still EXCEPT !.passes = 1, !.fails = 1, !.cuts = 1]]
\* Another device of the identity is listed while the pass derives.
Listed == [Base EXCEPT !.may = [Still EXCEPT !.passes = 1, !.devices = 1]]
\* The identity leaves during a pass.
Leaving == [Base EXCEPT !.views = <<Lists({P}, "start"), Left({P}, "write")>>,
                        !.may = [Still EXCEPT !.passes = 1, !.lags = 1]]
\* It leaves and joins again during a pass.
Returning == [Base EXCEPT !.views = <<Left({P}, "start"), Lists({P}, "rejoin")>>,
                          !.may = [Still EXCEPT !.passes = 1, !.imports = 1]]
\* A departed replica is brought more by each session.
Behind == [Base EXCEPT !.views = <<Left({P}, "start"), Left({P, Q}, "session")>>,
                       !.may = [Still EXCEPT !.passes = 1]]
\* It joins again while its subscriptions end and another device is listed.
Interrupted == [Base EXCEPT !.views = <<Left({P}, "start")>>, !.reachable = {},
                            !.may = [Still EXCEPT !.passes = 1, !.imports = 1, !.ends = 1]]
Greeted == [Base EXCEPT !.views = <<Left({P}, "start")>>, !.reachable = {},
                        !.may = [Still EXCEPT !.imports = 1, !.devices = 1]]
\* Neighbors come and go, and a dial of one misses; or two dials miss.
Unreached == [Base EXCEPT !.may = [Still EXCEPT !.ups = 2, !.downs = 1, !.misses = 1]]
Missed == [Base EXCEPT !.may = [Still EXCEPT !.ups = 2, !.misses = 2]]
\* Subscriptions end while a pass joins them.
Ending == [Base EXCEPT !.reachable = {},
                       !.may = [Still EXCEPT !.passes = 1, !.ups = 1, !.downs = 1, !.ends = 1]]
\* The other side dials and reports news, or dials twice.
Called == [Base EXCEPT !.may = [Still EXCEPT !.ups = 1, !.accepts = 1, !.reports = 1]]
CalledTwice == [Base EXCEPT !.may = [Still EXCEPT !.ups = 1, !.accepts = 2]]
\* Two identities of one node write; the pass and the announcements meet.
Beside == [Base EXCEPT !.co = [CoStill EXCEPT !.writes = 2, !.fails = 1, !.passes = 1]]
BesideAgain == [Base EXCEPT !.co = [CoStill EXCEPT !.writes = 1, !.fails = 1, !.passes = 2]]
BesideBoth == [Base EXCEPT !.co = [CoStill EXCEPT !.writes = 1, !.fails = 1, !.passes = 1,
                                                  !.stores = {"m", "r"}]]
\* Their sessions fail once handed over; no pass keeps a memo of them.
BesideCut == [Base EXCEPT !.co = [CoStill EXCEPT !.writes = 2, !.cuts = 1, !.stores = {"m", "r"}]]
\* The departure stands and passes recur.
Departed == [Base EXCEPT !.views = <<Left({P}, "start")>>, !.recurring = TRUE]
\* A session handed over fails, and a pass kept its memo.
BesideDenied == [Base EXCEPT !.co = [CoStill EXCEPT !.writes = 1, !.cuts = 1, !.passes = 2]]

DeliveryCases ==
    [deriving |-> Deriving, listed |-> Listed, leaving |-> Leaving, returning |-> Returning,
     behind |-> Behind, interrupted |-> Interrupted, greeted |-> Greeted,
     unreached |-> Unreached, missed |-> Missed, ending |-> Ending, called |-> Called,
     calledTwice |-> CalledTwice, beside |-> Beside, besideAgain |-> BesideAgain,
     besideBoth |-> BesideBoth, besideCut |-> BesideCut,
     departed |-> Departed]
DeniedCases == [denied |-> BesideDenied]
=============================================================================
