---------------------------- MODULE MCReconcile -----------------------------
(***************************************************************************)
(* The contents, rules and bounds the sessions are explored from.             *)
(***************************************************************************)
EXTENDS Reconcile

\* Ranks 2 and 3 are records of one time, 4 of a later one.
Contents(ks, ranks) == {c \in [Key -> ranks \cup {0}] : \A k \in Key \ ks : c[k] = 0}
Whole == [sends |-> [r \in Replica |-> Key], takes |-> [r \in Replica |-> Key]]
Bounds(m, n, w, c) ==
    [sessions |-> [s \in Links |-> IF s = <<"a", "b">> THEN m ELSE n], writes |-> w, cuts |-> c]
Three(x, y, z) == [r \in Replica |-> CASE r = "a" -> x [] r = "b" -> y [] r = "c" -> z]

\* Pairs of contents over all keys, exchanged once.
Pairs == {[live |-> Three(x, y, Nothing), rules |-> Whole, left |-> Bounds(1, 0, 0, 0)] :
            x \in Contents(Key, {2, 4}), y \in Contents(Key, {3, 4})}

\* A side withholds or drops some keys.
Filtered == {[live |-> Three(x, y, Nothing),
              rules |-> [Whole EXCEPT !.sends["a"] = send, !.takes["a"] = take],
              left |-> Bounds(1, 0, 0, 0)] :
               x \in Contents({1, 2, 3}, {2}), y \in Contents({1, 2, 3}, {4}),
               send \in SUBSET {1, 2, 3}, take \in SUBSET {1, 2, 3}}

\* Three replicas, sessions side by side, a local write and a cut connection.
Crossing == {[live |-> Three(x, y, z), rules |-> Whole, left |-> Bounds(1, 1, 1, 1)] :
               x \in Contents({1}, {2}), y \in Contents({1, 2}, {3}),
               z \in Contents({2}, {4})}

AllCases == Pairs \cup Filtered \cup Crossing
Authors == [k \in Key |-> k % 2]
Trio == {"a", "b", "c"}
ChainLinks == {<<"a", "b">>, <<"c", "b">>}
=============================================================================
