------------------------------ MODULE PodAccess -----------------------------
(***************************************************************************)
(* What a device sends and takes in a session on a pod's membership store      *)
(* (data-layer access.rs, pod/past.rs).  E and P are the entries its replica   *)
(* holds and those whose payload it has, view their membership view.           *)
(***************************************************************************)
EXTENDS MembershipView

CONSTANT Who    \* device -> the identity it belongs to

Departed(view, m) == DepartedAt(view, m) # 0

\* The events of m's chain up to sequence n, whatever they count for.
ChainUpto(E, m, n) == {e \in Events(E) : e.subject = m /\ e.seq <= n}

\* The entries of the least sequence, or version, of S.
Lowest(S) == {e \in S : \A f \in S : e.seq <= f.seq}

\* m's counted created or joined event of the lowest sequence.
KeyEvent(view, m) ==
    Lowest({e \in view.counted : e.subject = m /\ e.kind \in {"Created", "Joined"}})

DependsOn(view, E, e) ==
    IF e.kind = "Devices" THEN KeyEvent(view, e.subject)
    ELSE ChainUpto(E, e.subject, e.seq - 1)
           \cup ChainUpto(E, e.actor, e.actor_seq)
           \cup Lowest({s \in view.counted : /\ s.kind = "Devices" /\ s.subject = e.actor
                                              /\ e.author \in s.names})
           \cup KeyEvent(view, e.actor)

\* m's departure, a removal before a leave.
Departure(view, m, seq) ==
    LET at(kind) == {e \in view.counted : e.subject = m /\ e.seq = seq /\ e.kind = kind}
    IN IF at("Removed") # {} THEN at("Removed") ELSE at("Left")

\* All that m's departure depends on, itself included; nothing while the view
\* shows no departure of m.
DeparturePast(view, E, m) ==
    LET past[n \in 0 .. Cardinality(E)] ==
            IF n = 0 THEN Departure(view, m, DepartedAt(view, m))
            ELSE LET so_far == past[n - 1]
                 IN so_far \cup UNION {DependsOn(view, E, e) : e \in so_far}
    IN past[Cardinality(E)]

\* What a replica whose own identity m departed takes: its own chain whole, and
\* of every other chain the points its actors are named at.
Rests(E, m) ==
    LET within(upto) == {x \in Events(E) : x.subject = m \/ x.seq <= upto[x.subject]}
        upto[n \in 0 .. Cardinality(E)] ==
            IF n = 0 THEN [c \in Identities(E) |-> 0]
            ELSE LET taken == within(upto[n - 1])
                     named(c) == {x.actor_seq : x \in {y \in taken : y.actor = c}} \cup {0}
                 IN Table([c \in Identities(E) |-> CHOOSE k \in named(c) : \A l \in named(c) : l <= k])
        last == upto[Cardinality(E)]
    IN [own |-> m, upto |-> last, statements_of |-> {m} \cup {x.actor : x \in within(last)}]

RestsAdmit(rests, e) ==
    IF e.kind = "Devices" THEN e.subject \in rests.statements_of
    ELSE \/ e.subject = rests.own
         \/ e.subject \in DOMAIN rests.upto /\ e.seq <= rests.upto[e.subject]
-----------------------------------------------------------------------------
(***************************************************************************)
(* classify_pod.  The session's other party is device peer, for identity       *)
(* Who[peer]; d is the device deciding.                                        *)
(***************************************************************************)
\* serve_pod refuses: what is left depends on who dialed.
Unserved(view, P, d, peer, role) ==
    LET own == Who[d] caller == Who[peer] IN
    IF role = "Accept"
    THEN IF ~Departed(view, own) /\ MemberIn(view, caller).member THEN "Statements" ELSE "Deny"
    ELSE IF Departed(view, own) THEN "Nothing"
    ELSE IF \/ MembersIn(view) = {}
            \/ MemberIn(view, caller).member /\ DevicesOf(P, caller) = {}
         THEN "Unresolved"
         ELSE "Members"

Classify(view, P, d, peer, role) ==
    LET own == Who[d] caller == Who[peer] listed == peer \in DevicesOf(P, caller) IN
    IF caller = own THEN "Whole"
    ELSE IF listed /\ MemberIn(view, caller).member
    THEN IF Departed(view, own) THEN "OwnPast" ELSE "Whole"
    ELSE IF listed /\ Departed(view, caller) THEN "TheirPast"
    ELSE Unserved(view, P, d, peer, role)

\* The entries d sends, decided as mode.
Egress(mode, view, E, d, peer) ==
    CASE mode = "Whole" -> E
      [] mode \in {"OwnPast", "TheirPast"} ->
           DeparturePast(view, E, Who[IF mode = "OwnPast" THEN d ELSE peer])
      [] mode = "Unresolved" -> {e \in E : e.kind = "Devices" /\ e.subject = Who[d]}
      [] mode \in {"Statements", "Members", "Nothing", "Deny"} -> {}

\* The entries of X that d takes, decided as mode.
Ingest(mode, view, E, P, d, peer, X) ==
    LET statements == {e \in X : e.kind = "Devices" /\ e.subject = Who[peer]}
        authors == UNION {DevicesOf(P, m) : m \in MembersIn(view)}
        rests == Rests(E, Who[d])
        past == DeparturePast(view, E, Who[peer])
    IN CASE mode \in {"Whole", "Unresolved"} -> X
         [] mode = "OwnPast" -> {e \in X : RestsAdmit(rests, e)}
         [] mode = "TheirPast" -> {e \in X : \E f \in past : SameKey(e, f)}
         [] mode = "Statements" -> statements
         [] mode = "Members" -> {e \in X : e.author \in authors}
              \cup (IF MemberIn(view, Who[peer]).member THEN statements ELSE {})
         [] mode \in {"Nothing", "Deny"} -> {}
=============================================================================
