----------------------------- MODULE RangeSync ------------------------------
(***************************************************************************)
(* Range-based set reconciliation (pdn-store ranger.rs), as pure operators.  *)
(*                                                                         *)
(* A content gives every key the rank of the record held there, 0 for none: *)
(* a later record at a key, by time and then by hash, has the greater rank.  *)
(* The order of the keys is that of record identifiers.  A fingerprint is    *)
(* the content it was computed from, so two are equal when the contents are. *)
(* A message is the set of its parts: their ranges are disjoint and they are *)
(* answered from one frozen view, so their order changes nothing.            *)
(***************************************************************************)
EXTENDS Integers, FiniteSets, FiniteSetsExt

CONSTANTS Key

ASSUME KeyAssumption == Key \subseteq Nat \ {0} /\ IsFiniteSet(Key)

Content == [Key -> Nat]
Nothing == [k \in Key |-> 0]

Held(c) == {k \in Key : c[k] > 0}
Only(c, ks) == [k \in Key |-> IF k \in ks THEN c[k] ELSE 0]

\* x = y is everything, x < y the keys from x on before y, x > y wraps around.
Contains(r, k) ==
    CASE r.x = r.y -> TRUE
      [] r.x < r.y -> r.x <= k /\ k < r.y
      [] r.x > r.y -> r.x <= k \/ k < r.y

Within(view, r) == [k \in Key |-> IF Contains(r, k) THEN view[k] ELSE 0]

\* entry_put of the records of d: each takes the place of the one at its key.
Put(c, d) == [k \in Key |-> IF d[k] > 0 THEN d[k] ELSE c[k]]

\* "fingerprint" is RangeFingerprint; "items" and "rest" are RangeItem, the second
\* with have_local set: the sender has seen what the other side holds there.
Part(r, kind, values) == [range |-> r, kind |-> kind, values |-> values]
Kinds == {"fingerprint", "items", "rest"}

Initial(view) ==
    LET x == IF Held(view) = {} THEN 0 ELSE Min(Held(view))
    IN {Part([x |-> x, y |-> x], "fingerprint", view)}

\* How many keys of ks come before k when they are counted from x on, around.
Place(ks, x, k) ==
    Cardinality({j \in ks : IF (j >= x) <=> (k >= x) THEN j < k ELSE j >= x})

Pivot(ks, x, i) ==
    CHOOSE k \in ks : Place(ks, x, k) = ((Cardinality(ks) * (i + 1)) \div 2) % Cardinality(ks)

Split(view, r) ==
    LET ks == Held(Within(view, r))
        p == Pivot(ks, r.x, 0)
        q == Pivot(ks, r.x, 1)
    IN IF r.x = r.y THEN {c \in {[x |-> p, y |-> q], [x |-> q, y |-> p]} : c.x # c.y}
       ELSE {[x |-> r.x, y |-> p], [x |-> p, y |-> r.y]}

Recurses(view, p) ==
    /\ p.kind = "fingerprint"
    /\ Within(view, p.range) # p.values
    /\ Cardinality(Held(Within(view, p.range))) > 1 /\ Held(p.values) # {}

\* max_set_size is 1: more than one entry is sent as a fingerprint.
Chunk(view, r) ==
    LET entries == Within(view, r)
    IN Part(r, IF Cardinality(Held(entries)) > 1 THEN "fingerprint" ELSE "items", entries)

\* Mutant of Diff: a record held older by the other side is not sent.
DiffOfNew(view, p) ==
    [k \in Key |-> IF p.values[k] = 0 THEN Within(view, p.range)[k] ELSE 0]

\* The entries of a range the other side lacks or holds older.
Diff(view, p) ==
    [k \in Key |-> IF p.values[k] >= Within(view, p.range)[k] THEN 0 ELSE Within(view, p.range)[k]]

Answer(view, p) ==
    IF p.kind = "rest" THEN {}
    ELSE IF p.kind = "items" THEN
        IF Held(Diff(view, p)) = {} THEN {} ELSE {Part(p.range, "rest", Diff(view, p))}
    ELSE IF Within(view, p.range) = p.values THEN {}
    ELSE IF Recurses(view, p) THEN {Chunk(view, r) : r \in Split(view, p.range)}
    ELSE {Part(p.range, "items", Within(view, p.range))}

\* What a message is answered with; nothing ends the exchange.
Reply(view, message) == UNION {Answer(view, p) : p \in message}

\* The entries a message carries: ranges are disjoint, so one part has a key's.
Items(message) == {p \in message : p.kind # "fingerprint"}
Carried(message) ==
    [k \in Key |-> IF \E p \in Items(message) : p.values[k] > 0
                   THEN (CHOOSE p \in Items(message) : p.values[k] > 0).values[k] ELSE 0]
=============================================================================
