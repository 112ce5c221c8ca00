------------------------------ MODULE Ceremony ------------------------------
(***************************************************************************)
(* The one-time secrets the ceremonies rest on (PendingInvites in          *)
(* pdn-node/src/ceremony.rs): a secret is minted for an identity, presented *)
(* once, and used by the newcomer whose serving half wrote its last        *)
(* message.  Expiry is lazy: `expired` is what the clock says of the       *)
(* secret, read when the secret is presented and swept at the next mint.   *)
(***************************************************************************)
EXTENDS Naturals

CONSTANT Nobody

\* PendingInvite, of a secret just minted.
Invite(identity) ==
    [minted_for |-> identity, expired |-> FALSE, fate |-> "pending",
     newcomer |-> Nobody]

\* PendingInvites::mint: the expired ones are swept first.
Mint(invites, secret, identity) ==
    LET kept == {s \in DOMAIN invites : ~invites[s].expired}
    IN [s \in kept \cup {secret} |->
           IF s = secret THEN Invite(identity) ELSE invites[s]]

\* Mutant of Presentable: a secret presented before is taken again.
PresentableAgain(invites, secret) ==
    /\ secret \in DOMAIN invites
    /\ ~invites[secret].expired

\* PendingInvites::verify_and_burn answers an identity for this secret.
Presentable(invites, secret) ==
    /\ secret \in DOMAIN invites
    /\ invites[secret].fate = "pending"
    /\ ~invites[secret].expired

\* PendingInvites::verify_and_burn, once it answers.
Burned(invites, secret) == [invites EXCEPT ![secret].fate = "burned"]

\* PendingInvites::mark_used: a secret swept meanwhile stays unknown.
MarkedUsed(invites, secret, newcomer) ==
    IF secret \in DOMAIN invites /\ invites[secret].fate = "burned"
    THEN [invites EXCEPT ![secret].fate = "used", ![secret].newcomer = newcomer]
    ELSE invites

\* PendingInvites::state, what the inviter's host is told of a secret.
InviteState(invites, secret, identity) ==
    IF secret \notin DOMAIN invites \/ invites[secret].minted_for # identity
    THEN "unknown"
    ELSE IF invites[secret].fate = "pending" /\ invites[secret].expired
         THEN "expired" ELSE invites[secret].fate

\* The clock passes the lifetime of a secret.
Lapsed(invites, secret) == [invites EXCEPT ![secret].expired = TRUE]
=============================================================================
