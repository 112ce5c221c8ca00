--------------------------- MODULE MembershipView ---------------------------
(***************************************************************************)
(* The membership view: what the entries a device holds in a pod's           *)
(* membership store make of its members, and what each entry counts for      *)
(* (data-layer pod/membership_view.rs).  Pure operators over a set E of held  *)
(* entries and the subset P of them whose payload the device has.            *)
(*                                                                           *)
(* An entry is an event of its subject's chain, or a device statement (kind   *)
(* "Devices", its version in seq).  names are the devices its payload lists,  *)
(* write tells the writes of one key by one author apart.                     *)
(* Every entry is one an unmodified device signs, so the checks of keys,      *)
(* lengths and signatures are left out; those of place, author and state      *)
(* remain.  Identities are numbers, in the order of their PdnIds.             *)
(***************************************************************************)
EXTENDS Integers, Sequences, FiniteSets, TLC

\* The function f, as TLC keeps it once it is computed.
Table(f) == f @@ <<>>

GUARD_PASSES == 4
LOOP_ROUNDS == 4

EventKind == {"Created", "Joined", "Left", "Removed", "Promoted", "Demoted"}

\* The entries whose payload a verdict rests on.
PayloadRead == {"Created", "Joined", "Devices"}

NoMember == [member |-> FALSE, owner |-> FALSE]

IsOwner == [member |-> TRUE, owner |-> TRUE]
IsPlain == [member |-> TRUE, owner |-> FALSE]

Allows(before, kind) ==
    CASE kind \in {"Created", "Joined"} -> ~before.member
      [] kind \in {"Left", "Removed", "Promoted"} -> before.member
      [] kind = "Demoted" -> before.owner

\* Mutant of Rank: a promotion takes precedence over a departure.
RankPromotionOverDeparture(kind) ==
    CASE kind = "Promoted" -> 6 [] kind = "Removed" -> 5 [] kind = "Left" -> 4
      [] kind = "Demoted" -> 3 [] kind = "Created" -> 2 [] kind = "Joined" -> 1

\* Precedence at one sequence, the narrowest state first.
Rank(kind) ==
    CASE kind = "Removed" -> 6 [] kind = "Left" -> 5 [] kind = "Demoted" -> 4
      [] kind = "Promoted" -> 3 [] kind = "Created" -> 2 [] kind = "Joined" -> 1

Apply(kind) ==
    CASE kind \in {"Created", "Promoted"} -> IsOwner
      [] kind \in {"Joined", "Demoted"} -> IsPlain
      [] kind \in {"Left", "Removed"} -> NoMember
-----------------------------------------------------------------------------
(***************************************************************************)
(* Parsed and Alone: what reads no member's state.                           *)
(***************************************************************************)

Events(E) == {e \in E : e.kind # "Devices"}

\* Two writes by one author under one key: a replica keeps the later.
SameKey(e, f) ==
    /\ e.kind = f.kind /\ e.subject = f.subject /\ e.seq = f.seq
    /\ e.actor = f.actor /\ e.actor_seq = f.actor_seq /\ e.author = f.author

\* The last sequence of m's chain before the first one holding no entry.
Run(E, m) ==
    LET present == {e.seq : e \in {x \in Events(E) : x.subject = m}}
    IN CHOOSE n \in 0 .. Cardinality(present) :
         1 .. n \subseteq present /\ n + 1 \notin present

Identities(E) == {e.subject : e \in E}

\* Some held event carries m's identity key.
HasKey(P, m) == \E e \in P : e.kind \in {"Created", "Joined"} /\ e.subject = m

CountedStatements(P, m) ==
    {e \in P : e.kind = "Devices" /\ e.subject = m /\ HasKey(P, m)}

\* The devices m's counted statements and its join statements name.
DevicesOf(P, m) ==
    UNION {e.names : e \in CountedStatements(P, m)
                        \cup {x \in P : x.kind = "Joined" /\ x.subject = m}}

StatementVersion(P, m) ==
    LET versions == {e.seq : e \in CountedStatements(P, m)}
    IN IF versions = {} THEN 0 ELSE CHOOSE v \in versions : \A w \in versions : w <= v

RightActor(e) ==
    CASE e.kind = "Created" -> e.seq = 1 /\ e.actor = e.subject /\ e.actor_seq = 0
      [] e.kind = "Left" -> e.actor = e.subject
      [] e.kind \in {"Joined", "Removed", "Demoted"} -> e.actor # e.subject
      [] e.kind = "Promoted" -> TRUE

Runs(E) == Table([m \in {e.subject : e \in E} \cup {e.actor : e \in E} |-> Run(E, m)])

Candidate(P, runs, devices, e) ==
    /\ e.seq # 0
    /\ RightActor(e)
    /\ e.kind \in PayloadRead => e \in P
    /\ e.author \in devices[e.actor]
    /\ e.actor_seq <= runs[e.actor]
    /\ e.seq - 1 <= runs[e.subject]

Candidates(E, P, runs) ==
    LET devices == Table([m \in DOMAIN runs |-> DevicesOf(P, m)])
    IN {e \in Events(E) : Candidate(P, runs, devices, e)}
-----------------------------------------------------------------------------
(***************************************************************************)
(* Pass: the checks that read states.  A pass p has settled the first         *)
(* Len(p.states[m]) sequences of every chain; p.cyclic are the events loops    *)
(* were broken at.  The sequences that can settle settle together here; the    *)
(* code settles them one at a time, and reaches the same states.               *)
(***************************************************************************)
StateAt(p, m, n) == IF n = 0 THEN NoMember ELSE p.states[m][n]

Settled(p, m) == Len(p.states[m])

\* Mutant of ActorKnown: an act at the actor's last settled sequence is not judged.
ActorKnownBefore(p, e) ==
    \/ e.kind \in {"Created", "Left"}
    \/ e.actor_seq < Settled(p, e.actor)

ActorKnown(p, e) ==
    \/ e.kind \in {"Created", "Left"}
    \/ e.actor_seq <= Settled(p, e.actor)

ActorState(p, e) ==
    IF e.kind \in {"Created", "Left"} THEN NoMember
    ELSE StateAt(p, e.actor, e.actor_seq)

Judge(e, actor, aside) ==
    IF \/ e.kind = "Joined" /\ ~actor.member
       \/ e.kind \in {"Promoted", "Removed", "Demoted"} /\ ~actor.owner
    THEN "ActorLacksState"
    ELSE IF e \in aside THEN "LastOwnerKept" ELSE "Counted"

\* Of a candidate at a settled sequence, or at the first unsettled one.
VerdictIn(p, aside, e) ==
    IF ~Allows(StateAt(p, e.subject, e.seq - 1), e.kind) THEN "TransitionNotAllowed"
    ELSE IF e \in p.cyclic THEN "Cyclic"
    ELSE IF ActorKnown(p, e) THEN Judge(e, ActorState(p, e), aside)
    ELSE "Waiting"

At(C, m, n) == {e \in C : e.subject = m /\ e.seq = n}

\* The counted events of the highest rank at one sequence.
Winners(p, C, aside, m, n) ==
    LET counted == {e \in At(C, m, n) : VerdictIn(p, aside, e) = "Counted"}
    IN {e \in counted : \A f \in counted : Rank(f.kind) <= Rank(e.kind)}

After(p, C, aside, m, n) ==
    LET won == Winners(p, C, aside, m, n)
    IN IF won = {} THEN StateAt(p, m, n - 1) ELSE Apply((CHOOSE e \in won : TRUE).kind)

WaitingAt(p, C, aside, m) ==
    {e \in At(C, m, Settled(p, m) + 1) : VerdictIn(p, aside, e) = "Waiting"}

Waiting(p, C, aside) == UNION {WaitingAt(p, C, aside, m) : m \in DOMAIN p.states}

\* A waiting event waits on the events waiting at the first unsettled sequence
\* of its actor's chain; those on a loop of such waits.
Looped(W, p) ==
    LET next(e) == {f \in W : f.subject = e.actor /\ f.seq = Settled(p, e.actor) + 1}
        reach[n \in 0 .. Cardinality(W)] ==
            IF n = 0 THEN Table([e \in W |-> next(e)])
            ELSE LET r == reach[n - 1]
                 IN Table([e \in W |-> r[e] \cup UNION {next(f) : f \in r[e]}])
    IN {e \in W : e \in reach[Cardinality(W)][e]}

BreakLoops(p, C, aside) ==
    LET W == Waiting(p, C, aside)
    IN [p EXCEPT !.rounds = @ + 1,
                 !.cyclic = @ \cup IF p.rounds < LOOP_ROUNDS THEN Looped(W, p) ELSE W]

Unsettled(p, runs) == {m \in DOMAIN p.states : Settled(p, m) < runs[m]}

Advance(p, C, runs, aside) ==
    LET ready == {m \in Unsettled(p, runs) : WaitingAt(p, C, aside, m) = {}}
    IN IF ready = {} THEN BreakLoops(p, C, aside)
       ELSE [p EXCEPT !.states =
               Table([m \in DOMAIN @ |->
                  IF m \in ready
                  THEN Append(@[m], After(p, C, aside, m, Settled(p, m) + 1))
                  ELSE @[m]])]

Unjudged(E) == [states |-> Table([m \in Identities(E) |-> <<>>]), cyclic |-> {}, rounds |-> 0]

\* Every advance settles a sequence or breaks a loop, of which there are no
\* more than candidates.
Pass(E, C, runs, aside) ==
    LET p[n \in 0 .. 2 * Cardinality(E)] ==
            IF n = 0 THEN Unjudged(E)
            ELSE LET q == p[n - 1]
                 IN IF Unsettled(q, runs) = {} THEN q ELSE Advance(q, C, runs, aside)
    IN p[2 * Cardinality(E)]
-----------------------------------------------------------------------------
(***************************************************************************)
(* The guard over the last owner, and the view.                              *)
(***************************************************************************)
Final(p, m) == StateAt(p, m, Settled(p, m))

\* The last sequence at which a counted event of m's chain won, or 0.
LastWon(p, C, aside, m) ==
    LET seqs == {n \in 1 .. Settled(p, m) : Winners(p, C, aside, m, n) # {}} \cup {0}
    IN CHOOSE n \in seqs : \A k \in seqs : k <= n

EndingDemotion(p, C, aside, m) ==
    {e \in Winners(p, C, aside, m, LastWon(p, C, aside, m)) : e.kind = "Demoted"}

\* Of the members whose last act was a demotion, ending the demotions of each,
\* taken in the order of their demotions' actors, the last keeps its role.
KeepsRole(ending) ==
    LET ended == {m \in DOMAIN ending : ending[m] # {}}
        by(m) == CHOOSE a \in {e.actor : e \in ending[m]} : \A e \in ending[m] : a <= e.actor
    IN {m \in ended : \A o \in ended : by(o) < by(m) \/ (by(o) = by(m) /\ o <= m)}

\* Mutant of DemotionsToSetAside: no demotion is set aside.
SetAsideNone(p, C, aside) == {}

DemotionsToSetAside(p, C, aside) ==
    LET ending == Table([m \in {k \in DOMAIN p.states : Final(p, k).member} |->
                           EndingDemotion(p, C, aside, m)])
    IN IF \E m \in DOMAIN p.states : Final(p, m).owner THEN {}
       ELSE UNION {ending[m] : m \in KeepsRole(ending)}

\* A pass p is the n-th: what it makes of the entries.
Report(p, C, aside, statements, n) ==
    [p |-> p, aside |-> aside, passes |-> n,
     counted |-> {e \in C : VerdictIn(p, aside, e) = "Counted"} \cup statements]

Judged(E, P, C, runs, aside, n) ==
    Report(Pass(E, C, runs, aside), C, aside,
           UNION {CountedStatements(P, m) : m \in Identities(E)}, n)

\* The passes until the guard sets nothing more aside.
GuardedAgain(E, P, C, runs, last, more) ==
    IF more \subseteq last.aside THEN last
    ELSE Judged(E, P, C, runs, last.aside \cup more, last.passes + 1)

Guarded(E, P, C, runs) ==
    LET v[n \in 1 .. GUARD_PASSES] ==
            IF n = 1 THEN Judged(E, P, C, runs, {}, 1)
            ELSE LET last == v[n - 1]
                 IN GuardedAgain(E, P, C, runs, last, DemotionsToSetAside(last.p, C, last.aside))
    IN v[GUARD_PASSES]

ViewOver(E, P, runs) == Guarded(E, P, Candidates(E, P, runs), runs)

View(E, P) == ViewOver(E, P, Runs(E))

\* What the view shows of an identity, NoMember for one it does not name.
MemberIn(view, m) == IF m \in DOMAIN view.p.states THEN Final(view.p, m) ELSE NoMember

MembersIn(view) == {m \in DOMAIN view.p.states : Final(view.p, m).member}
OwnersIn(view) == {m \in DOMAIN view.p.states : Final(view.p, m).owner}

RunIn(view, m) == IF m \in DOMAIN view.p.states THEN Settled(view.p, m) ELSE 0

\* The sequence at which m last became a member; 0 while it is none.
JoinedAt(view, m) ==
    LET starts == {n \in 1 .. RunIn(view, m) : ~StateAt(view.p, m, n - 1).member}
    IN IF ~MemberIn(view, m).member THEN 0
       ELSE CHOOSE n \in starts : \A k \in starts : k <= n

\* The sequence of the departure that ended m's latest membership, or 0.
DepartedAt(view, m) ==
    LET ends == {n \in 1 .. RunIn(view, m) : /\ StateAt(view.p, m, n - 1).member
                                             /\ ~StateAt(view.p, m, n).member}
    IN IF MemberIn(view, m).member \/ ends = {} THEN 0
       ELSE CHOOSE n \in ends : \A k \in ends : k <= n
=============================================================================
