--------------------------- MODULE HostingProofs ----------------------------
(***************************************************************************)
(* The steps of Hosting, whatever else runs beside them, keep three        *)
(* inductive invariants, for any devices, identities, calls, secrets and   *)
(* budgets of faults:                                                      *)
(*                                                                         *)
(*   Base        the shape of the tables;                                  *)
(*   SecretsInv  which half of a dialogue has a secret in hand;            *)
(*   OwnersInv   for all that was brought up and is not hosted, who will   *)
(*               undo it: the reservation of a link keeps other links      *)
(*               away, and nothing of an identity is shared before its     *)
(*               create is over, so there is one undoer and it undoes its  *)
(*               own attempt only.                                         *)
(*                                                                         *)
(* Here are the first two and the kinds of step that keep the third;       *)
(* NodeRuntimeProofs has the rest of it and the theorems.                  *)
(***************************************************************************)
EXTENDS Hosting, TLAPS

NodeFields == {"power", "half", "hosted", "inflight", "lock", "writers", "tasks", "invites",
               "gate"}
CallFields == {"pc", "secret", "pms", "round", "wrote"}

CreateOnly == {"create", "keying"}
LinkOnly == {"dial", "waiting", "replied", "import", "arm", "catch_up", "confirm", "release"}

\* The shape of the tables, and the steps a create and a link go through.
NodesOK == DOMAIN node = Devices /\ \A d \in Devices : DOMAIN node[d] = NodeFields
CallsOK ==
    /\ DOMAIN calls = Calls
    /\ \A c \in Calls :
          /\ DOMAIN calls[c] = CallFields
          /\ calls[c].pc \in CreateOnly => ~IsLink(c)
          /\ calls[c].pc \in LinkOnly => IsLink(c)
TablesOK ==
    /\ DOMAIN store = Devices /\ DOMAIN disk = Devices
    /\ DOMAIN record = Devices /\ DOMAIN promised = Devices
    /\ DOMAIN handed = Secrets /\ \A s \in Secrets : DOMAIN handed[s] = {"by", "of", "to"}

Base == case \in DOMAIN Cases /\ NodesOK /\ CallsOK /\ TablesOK

\* What the case says of its calls.
LEMMA CallFacts ==
    ASSUME case \in DOMAIN Cases, NEW c \in Calls
    PROVE  /\ At(c) \in Devices /\ Of(c) \in Identities
           /\ IsLink(c) => Inviter(c) \in Devices
           /\ ~IsLink(c) =>
                 /\ \A d \in Devices : Of(c) \notin Setting.hosted[d]
                 /\ \A b \in Calls : ~IsLink(b) /\ Of(b) = Of(c) => b = c
BY CasesAssumption, Zenon DEF Calls, At, Of, IsLink, Inviter, Setting

\* A case is never changed, and its calls with it.
LEMMA CaseFixed ==
    ASSUME UNCHANGED case
    PROVE  /\ Calls' = Calls
           /\ \A c : At(c)' = At(c) /\ Of(c)' = Of(c) /\ IsLink(c)' = IsLink(c)
BY Zenon DEF Calls, At, Of, IsLink, Setting
-----------------------------------------------------------------------------

\* The host's state but for the budgets, which nothing is said of.
hostCore == <<case, node, store, disk, record, calls, serving, handed, promised>>

\* A call goes on, is begun, fails or is dropped.
CallActs(c) ==
    \/ CreatePms(c) \/ CreateArms(c) \/ Commits(c) \/ Recorded(c) \/ RecordFails(c)
    \/ Dials(c) \/ Unanswered(c) \/ LinkProvisions(c) \/ LinkImports(c) \/ LinkArms(c)
    \/ LinkCatchesUp(c) \/ LinkTimesOut(c) \/ LinkConfirms(c) \/ Releases(c) \/ RollsBack(c)
CallTurns(c) ==
    \/ CreateBegins(c) \/ (\E s \in Secrets : LinkBegins(c, s))
    \/ CreateFails(c) \/ LinkFails(c) \/ LinkGivesUp(c) \/ Cancels(c)

\* A serving half goes on; what runs detached on a device; its power and disk.
ServingActs(x) == Enters(x) \/ Burns(x) \/ Replies(x) \/ MarksUsed(x) \/ Leaves(x)
DetachedActs(d) ==
    \/ \E w \in node[d].writers : WriterEnds(d, w)
    \/ \E t \in node[d].tasks : TaskUndoes(d, t) \/ TaskReleases(d, t)
DeviceActs(d) ==
    \/ Starts(d) \/ Ready(d) \/ StartFails(d) \/ ShutsDown(d) \/ Drains(d) \/ Stops(d)
    \/ Crashes(d) \/ StoreSettles(d)

\* The name of a payload is inserted into a replica.
Filed(d, i) ==
    /\ \E names : store' = [store EXCEPT ![d][i].payloads = names]
    /\ UNCHANGED <<case, node, disk, record, calls, serving, handed, promised>>

\* Whatever happens to the host's state.
HostStep ==
    \/ \E c \in Calls : CallActs(c) \/ CallTurns(c)
    \/ \E x \in serving : ServingActs(x)
    \/ \E d \in Devices : DetachedActs(d) \/ DeviceActs(d)
    \/ \E d \in Devices, i \in Identities : Sweeps(d, i) \/ Recovers(d, i) \/ MintInvite(d, i)
    \/ \E d \in Devices, s \in Secrets : Lapses(d, s)
    \/ \E d, e \in Devices, i \in Identities : Exchanges(d, e, i)
    \/ \E d \in Devices : \E i \in DOMAIN store[d] : Filed(d, i)
    \/ UNCHANGED hostCore

\* Two steps that take one of two ways.
LEMMA LinkProvisionsBase == ASSUME Base, NEW c \in Calls, LinkProvisions(c) PROVE Base'
<1>1. NodesOK'
  BY CallFacts, Zenon DEF Base, NodesOK, NodeFields, LinkProvisions, Provisioned
<1>2. CallsOK'
  BY CaseFixed, ZenonT(40) DEF Base, CallsOK, CallFields, CreateOnly, LinkOnly, LinkProvisions, Goes
<1> QED BY <1>1, <1>2, Zenon DEF Base, TablesOK, LinkProvisions

LEMMA BurnsBase == ASSUME Base, NEW x \in serving, Burns(x) PROVE Base'
<1>1. NodesOK'
  BY Zenon DEF Base, NodesOK, NodeFields, Burns
<1>2. CallsOK'
  BY CaseFixed, Zenon DEF Base, CallsOK, Burns
<1> QED BY <1>1, <1>2, Zenon DEF Base, TablesOK, Burns

\* Every step keeps the shape.
LEMMA BaseStep == Base /\ HostStep => Base'
<1> SUFFICES ASSUME Base, HostStep PROVE Base'
  BY Zenon
<1> USE CallFacts, CaseFixed DEF Base, NodesOK, CallsOK, TablesOK, NodeFields, CallFields,
                                 CreateOnly, LinkOnly
<1>CreatePms. ASSUME NEW c \in Calls, CreatePms(c) PROVE Base'
  BY <1>CreatePms DEF CreatePms
<1>CreateArms. ASSUME NEW c \in Calls, CreateArms(c) PROVE Base'
  BY <1>CreateArms DEF CreateArms, Governed, Goes
<1>Recorded. ASSUME NEW c \in Calls, Recorded(c) PROVE Base'
  BY <1>Recorded DEF Recorded, Admitted, Goes
<1>RecordFails. ASSUME NEW c \in Calls, RecordFails(c) PROVE Base'
  BY <1>RecordFails DEF RecordFails, Goes
<1>Dials. ASSUME NEW c \in Calls, Dials(c) PROVE Base'
  BY <1>Dials, ZenonT(40) DEF Dials, Goes
<1>Unanswered. ASSUME NEW c \in Calls, Unanswered(c) PROVE Base'
  BY <1>Unanswered, ZenonT(40) DEF Unanswered, Goes
<1>LinkProvisions. ASSUME NEW c \in Calls, LinkProvisions(c) PROVE Base'
  BY <1>LinkProvisions, LinkProvisionsBase, Zenon
<1>LinkImports. ASSUME NEW c \in Calls, LinkImports(c) PROVE Base'
  BY <1>LinkImports DEF LinkImports
<1>LinkArms. ASSUME NEW c \in Calls, LinkArms(c) PROVE Base'
  BY <1>LinkArms, ZenonT(40) DEF LinkArms, Governed, Goes
<1>LinkTimesOut. ASSUME NEW c \in Calls, LinkTimesOut(c) PROVE Base'
  BY <1>LinkTimesOut, ZenonT(40) DEF LinkTimesOut, Goes
<1>LinkConfirms. ASSUME NEW c \in Calls, LinkConfirms(c) PROVE Base'
  BY <1>LinkConfirms, ZenonT(40) DEF LinkConfirms, Goes
<1>Releases. ASSUME NEW c \in Calls, Releases(c) PROVE Base'
  BY <1>Releases, ZenonT(40) DEF Releases, Goes
<1>Commits. ASSUME NEW c \in Calls, Commits(c) PROVE Base'
  BY <1>Commits DEF Commits, FlushStores
<1>RollsBack. ASSUME NEW c \in Calls, RollsBack(c) PROVE Base'
  BY <1>RollsBack, ZenonT(40) DEF RollsBack, Unhosted, Goes
<1>LinkCatchesUp. ASSUME NEW c \in Calls, LinkCatchesUp(c) PROVE Base'
  BY <1>LinkCatchesUp DEF LinkCatchesUp, Goes
<1>CreateBegins. ASSUME NEW c \in Calls, CreateBegins(c) PROVE Base'
  BY <1>CreateBegins, Zenon DEF CreateBegins, Provisioned, IdleCall
<1>CreateFails. ASSUME NEW c \in Calls, CreateFails(c) PROVE Base'
  BY <1>CreateFails, ZenonT(40) DEF CreateFails, Goes
<1>LinkFails. ASSUME NEW c \in Calls, LinkFails(c) PROVE Base'
  BY <1>LinkFails, ZenonT(40) DEF LinkFails, Goes
<1>LinkGivesUp. ASSUME NEW c \in Calls, LinkGivesUp(c) PROVE Base'
  BY <1>LinkGivesUp, ZenonT(40) DEF LinkGivesUp, Goes
<1>Cancels. ASSUME NEW c \in Calls, Cancels(c) PROVE Base'
  BY <1>Cancels, ZenonT(40) DEF Cancels, Goes
<1>LinkBegins. ASSUME NEW c \in Calls, NEW s \in Secrets, LinkBegins(c, s) PROVE Base'
  BY <1>LinkBegins, Zenon DEF LinkBegins, IdleCall
<1>Enters. ASSUME NEW x \in serving, Enters(x) PROVE Base'
  BY <1>Enters, Zenon DEF Enters
<1>Burns. ASSUME NEW x \in serving, Burns(x) PROVE Base'
  BY <1>Burns, BurnsBase, Zenon
<1>Replies. ASSUME NEW x \in serving, Replies(x) PROVE Base'
  BY <1>Replies DEF Replies
<1>MarksUsed. ASSUME NEW x \in serving, MarksUsed(x) PROVE Base'
  BY <1>MarksUsed, Zenon DEF MarksUsed
<1>Leaves. ASSUME NEW x \in serving, Leaves(x) PROVE Base'
  BY <1>Leaves, Zenon DEF Leaves
<1>WriterEnds. ASSUME NEW d \in Devices, NEW w \in node[d].writers, WriterEnds(d, w) PROVE Base'
  BY <1>WriterEnds DEF WriterEnds
<1>TaskUndoes. ASSUME NEW d \in Devices, NEW t \in node[d].tasks, TaskUndoes(d, t) PROVE Base'
  BY <1>TaskUndoes, Zenon DEF TaskUndoes, Unhosted
<1>TaskReleases. ASSUME NEW d \in Devices, NEW t \in node[d].tasks, TaskReleases(d, t) PROVE Base'
  BY <1>TaskReleases, Zenon DEF TaskReleases
<1>Sweeps. ASSUME NEW d \in Devices, NEW i \in Identities, Sweeps(d, i) PROVE Base'
  BY <1>Sweeps, Zenon DEF Sweeps
<1>Recovers. ASSUME NEW d \in Devices, NEW i \in Identities, Recovers(d, i) PROVE Base'
  BY <1>Recovers, Zenon DEF Recovers, Governed
<1>MintInvite. ASSUME NEW d \in Devices, NEW i \in Identities, MintInvite(d, i) PROVE Base'
  BY <1>MintInvite, Zenon DEF MintInvite
<1>Lapses. ASSUME NEW d \in Devices, NEW s \in Secrets, Lapses(d, s) PROVE Base'
  BY <1>Lapses, Zenon DEF Lapses
<1>Ready. ASSUME NEW d \in Devices, Ready(d) PROVE Base'
  BY <1>Ready, Zenon DEF Ready
<1>Drains. ASSUME NEW d \in Devices, Drains(d) PROVE Base'
  BY <1>Drains, Zenon DEF Drains
<1>Stops. ASSUME NEW d \in Devices, Stops(d) PROVE Base'
  BY <1>Stops, Zenon DEF Stops, Stopped, Off
<1>StoreSettles. ASSUME NEW d \in Devices, StoreSettles(d) PROVE Base'
  BY <1>StoreSettles, Zenon DEF StoreSettles
<1>Starts. ASSUME NEW d \in Devices, Starts(d) PROVE Base'
  BY <1>Starts, Zenon DEF Starts, Assembled, Off
<1>ShutsDown. ASSUME NEW d \in Devices, ShutsDown(d) PROVE Base'
  BY <1>ShutsDown, Zenon DEF ShutsDown
<1>StartFails. ASSUME NEW d \in Devices, StartFails(d) PROVE Base'
  BY <1>StartFails, Zenon DEF StartFails, Stopped, Off
<1>Crashes. ASSUME NEW d \in Devices, Crashes(d) PROVE Base'
  BY <1>Crashes, ZenonT(40) DEF Crashes, Off
<1>Exchanges. ASSUME NEW d \in Devices, NEW e \in Devices, NEW i \in Identities, Exchanges(d,
      e, i) PROVE Base'
  BY <1>Exchanges, Zenon DEF Exchanges
<1>Filed. ASSUME NEW d \in Devices, NEW i \in DOMAIN store[d], Filed(d, i) PROVE Base'
  BY <1>Filed, Zenon DEF Filed
<1>Aside. CASE UNCHANGED hostCore
  BY <1>Aside, Zenon DEF hostCore
<1> QED BY <1>CreatePms, <1>CreateArms, <1>Recorded, <1>RecordFails, <1>Dials,
       <1>Unanswered, <1>LinkProvisions, <1>LinkImports, <1>LinkArms, <1>LinkTimesOut,
       <1>LinkConfirms, <1>Releases, <1>Commits, <1>RollsBack, <1>LinkCatchesUp,
       <1>CreateBegins, <1>CreateFails, <1>LinkFails, <1>LinkGivesUp, <1>Cancels, <1>LinkBegins,
       <1>Enters, <1>Burns, <1>Replies, <1>MarksUsed, <1>Leaves, <1>WriterEnds, <1>TaskUndoes,
       <1>TaskReleases, <1>Sweeps, <1>Recovers, <1>MintInvite, <1>Lapses, <1>Ready, <1>Drains,
       <1>Stops, <1>StoreSettles, <1>Starts, <1>ShutsDown, <1>StartFails, <1>Crashes,
       <1>Exchanges, <1>Filed, <1>Aside, Zenon
       DEF HostStep, CallActs, CallTurns, ServingActs, DetachedActs, DeviceActs
-----------------------------------------------------------------------------
(* A secret buys one ticket.  verify_and_burn takes a secret that is        *)
(* pending once; what it leaves is one half about to reply, so the secret   *)
(* is owned by its entry, then by that half, then by who was sent the reply. *)

ServingFields == {"call", "round", "secret", "at", "step"}
InviteFields == {"minted_for", "expired", "fate", "newcomer"}

\* A secret that is held is one its device minted; while it is pending nobody
\* was sent a ticket for it or is about to be.
InviteOK(d, s) ==
    LET v == node[d].invites[s] IN
    /\ s \in Secrets /\ handed[s].by = d /\ DOMAIN v = InviteFields
    /\ v.fate = "pending" =>
          handed[s].to = {} /\ \A x \in serving : x.secret = s => x.step # "replying"
    /\ v.fate = "used" => handed[s].to # {}

HandedOK(s) ==
    /\ handed[s].by = Nobody => handed[s].to = {}
    /\ \A a, b \in handed[s].to : a = b

ServingOK(x) ==
    /\ DOMAIN x = ServingFields /\ x.at \in Devices
    /\ x.step = "replying" =>
          x.secret \in Secrets /\ handed[x.secret].by # Nobody /\ handed[x.secret].to = {}
    /\ x.step = "sent" => x.secret \in Secrets /\ handed[x.secret].to # {}

OneReply ==
    \A x, y \in serving :
        x.step = "replying" /\ y.step = "replying" /\ x.secret = y.secret => x = y

SecretsInv ==
    /\ \A d \in Devices : \A s \in DOMAIN node[d].invites : InviteOK(d, s)
    /\ \A s \in Secrets : HandedOK(s)
    /\ \A x \in serving : ServingOK(x)
    /\ OneReply

\* A step that mints, presents and answers nothing, whatever else it does.
LEMMA SecretsKept ==
    ASSUME Base, SecretsInv, UNCHANGED handed,
           \A d \in Devices : node'[d].invites = node[d].invites \/ node'[d].invites = <<>>,
           \A x \in serving' : \/ x \in serving
                               \/ /\ DOMAIN x = ServingFields /\ x.at \in Devices
                                  /\ x.step \notin {"replying", "sent"}
    PROVE  SecretsInv'
<1>1. \A d \in Devices : \A s \in DOMAIN (node'[d].invites) : InviteOK(d, s)'
  BY DEF SecretsInv, InviteOK
<1>2. \A s \in Secrets : HandedOK(s)'
  BY Zenon DEF SecretsInv, HandedOK
<1>3. \A x \in serving' : ServingOK(x)'
  BY Zenon DEF SecretsInv, ServingOK
<1>4. OneReply'
  BY Zenon DEF SecretsInv, OneReply
<1> QED BY <1>1, <1>2, <1>3, <1>4, Zenon DEF SecretsInv

LEMMA MintSecrets ==
    ASSUME Base, SecretsInv, NEW d \in Devices, NEW i \in Identities, MintInvite(d, i)
    PROVE  SecretsInv'
<1>1. PICK s \in Secrets :
          /\ handed[s].by = Nobody
          /\ node' = [node EXCEPT ![d].invites = Mint(@, s, i)]
          /\ handed' = [handed EXCEPT ![s].by = d, ![s].of = i]
  <2> DEFINE fresh == {r \in Secrets : handed[r].by = Nobody}
             f == CHOOSE r \in fresh : TRUE
  <2>1. f \in fresh
    BY Zenon DEF MintInvite
  <2>2. /\ node' = [node EXCEPT ![d].invites = Mint(@, f, i)]
        /\ handed' = [handed EXCEPT ![f].by = d, ![f].of = i]
    BY Zenon DEF MintInvite
  <2> HIDE DEF f
  <2> QED BY <2>1, <2>2, Zenon
<1>2. serving' = serving
  BY Zenon DEF MintInvite
<1>3. /\ handed'[s].by = d /\ handed'[s].to = handed[s].to
      /\ \A r \in Secrets : r # s => handed'[r] = handed[r]
  BY <1>1, <1>2, Zenon DEF Base, TablesOK
<1>4. \A e \in Devices : e # d => node'[e].invites = node[e].invites
  BY <1>1, Zenon DEF Base, NodesOK, NodeFields
<1>5. /\ s \in DOMAIN (node'[d].invites) /\ node'[d].invites[s] = Invite(i)
      /\ \A r \in DOMAIN (node'[d].invites) :
            r # s => r \in DOMAIN node[d].invites /\ node'[d].invites[r] = node[d].invites[r]
  BY <1>1, Zenon DEF Base, NodesOK, NodeFields, Mint
<1>6. \A e \in Devices : s \notin DOMAIN node[e].invites
  BY <1>1, NobodyAssumption DEF SecretsInv, InviteOK
<1>7. \A x \in serving : x.secret = s => x.step # "replying" /\ x.step # "sent"
  BY <1>1, Zenon DEF SecretsInv, ServingOK, HandedOK
<1>8. InviteOK(d, s)'
  <2>1. handed'[s].to = {}
    BY <1>1, <1>3, Zenon DEF SecretsInv, HandedOK
  <2>2. DOMAIN Invite(i) = InviteFields /\ Invite(i).fate = "pending"
    BY Zenon DEF Invite, InviteFields
  <2> QED BY <1>1, <1>2, <1>3, <1>5, <1>7, <2>1, <2>2, Zenon DEF InviteOK
<1>9. \A e \in Devices : \A r \in DOMAIN (node'[e].invites) : r # s => InviteOK(e, r)'
  BY <1>2, <1>3, <1>4, <1>5 DEF SecretsInv, InviteOK
<1>10. \A r \in Secrets : HandedOK(r)'
  BY <1>1, <1>3, NobodyAssumption, ZenonT(40) DEF SecretsInv, HandedOK
<1>11. \A x \in serving' : ServingOK(x)'
  BY <1>2, <1>3, <1>7, Zenon DEF SecretsInv, ServingOK
<1>12. \A e \in Devices : \A r \in DOMAIN (node'[e].invites) : InviteOK(e, r)'
  BY <1>4, <1>6, <1>8, <1>9, Zenon
<1> QED BY <1>2, <1>10, <1>11, <1>12, Zenon DEF SecretsInv, OneReply

LEMMA LapseSecrets ==
    ASSUME Base, SecretsInv, NEW d \in Devices, NEW s \in Secrets, Lapses(d, s)
    PROVE  SecretsInv'
<1>1. /\ DOMAIN (node'[d].invites) = DOMAIN node[d].invites
      /\ \A r \in DOMAIN node[d].invites :
            /\ DOMAIN (node'[d].invites[r]) = DOMAIN node[d].invites[r]
            /\ DOMAIN node[d].invites[r] = InviteFields
            /\ node'[d].invites[r].fate = node[d].invites[r].fate
  BY DEF Lapses, Lapsed, Base, NodesOK, NodeFields, SecretsInv, InviteOK, InviteFields
<1>2. UNCHANGED <<handed, serving>> /\ \A e \in Devices : e # d => node'[e] = node[e]
  BY Zenon DEF Lapses, Base, NodesOK
<1>3. \A e \in Devices : \A r \in DOMAIN (node'[e].invites) : InviteOK(e, r)'
  BY <1>1, <1>2 DEF SecretsInv, InviteOK
<1> QED BY <1>2, <1>3, Zenon DEF SecretsInv, HandedOK, ServingOK, OneReply

\* The inviter's half burns the secret it was shown, or refuses.
LEMMA BurnSecrets ==
    ASSUME Base, SecretsInv, NEW x \in serving, Burns(x)
    PROVE  SecretsInv'
<1> DEFINE e == x.at
           y == [x EXCEPT !.step = "replying"]
<1>1. e \in Devices /\ DOMAIN x = ServingFields
  BY Zenon DEF SecretsInv, ServingOK
<1>2. CASE ~Presentable(node[e].invites, x.secret)
  BY <1>2, SecretsKept, Zenon DEF Burns, Ends
<1>3. CASE Presentable(node[e].invites, x.secret)
  <2>1. UNCHANGED handed /\ node' = [node EXCEPT ![e].invites = Burned(@, x.secret)]
    BY <1>3, Zenon DEF Burns
  <2>2. serving' = serving \ {x} \/ serving' = (serving \ {x}) \cup {y}
    BY <1>3, Zenon DEF Burns, Ends, Step
  <2>3. /\ x.secret \in DOMAIN node[e].invites /\ InviteOK(e, x.secret)
        /\ node[e].invites[x.secret].fate = "pending"
    BY <1>1, <1>3, Zenon DEF SecretsInv, Presentable
  <2>4. /\ x.secret \in Secrets /\ handed[x.secret].by = e /\ handed[x.secret].to = {}
        /\ \A z \in serving : z.secret = x.secret => z.step # "replying"
    BY <2>3, Zenon DEF InviteOK
  <2>0. node'[e].invites = Burned(node[e].invites, x.secret)
    BY <1>1, <2>1, Zenon DEF Base, NodesOK, NodeFields
  <2>5. /\ DOMAIN (node'[e].invites) = DOMAIN node[e].invites
        /\ node'[e].invites[x.secret].fate = "burned"
        /\ DOMAIN (node'[e].invites[x.secret]) = InviteFields
        /\ \A r \in DOMAIN node[e].invites :
              r # x.secret => node'[e].invites[r] = node[e].invites[r]
    BY <2>0, <2>3, Zenon DEF Burned, InviteOK, InviteFields
  <2>6. \A d \in Devices : d # e => node'[d] = node[d]
    BY <2>1, Zenon DEF Base, NodesOK
  <2>7. /\ y.step = "replying" /\ y.secret = x.secret /\ y.at = x.at /\ DOMAIN y = ServingFields
    BY <1>1, Zenon DEF ServingFields
  <2> HIDE DEF e, y
  <2>8. InviteOK(e, x.secret)'
    BY <1>1, <2>1, <2>3, <2>5, Zenon DEF InviteOK
  <2>9. ASSUME NEW d \in Devices, NEW r \in DOMAIN (node'[d].invites), <<d, r>> # <<e, x.secret>>
        PROVE  InviteOK(d, r)'
    <3>1. r \in DOMAIN node[d].invites /\ node'[d].invites[r] = node[d].invites[r]
      BY <2>5, <2>6, <2>9, Zenon
    <3>2. InviteOK(d, r)
      BY <3>1, Zenon DEF SecretsInv
    <3>3. r # x.secret
      BY <2>4, <2>9, <3>2, Zenon DEF InviteOK
    <3> QED BY <2>1, <2>2, <2>7, <3>1, <3>2, <3>3, Zenon DEF InviteOK
  <2>10. \A z \in serving' : ServingOK(z)'
    BY <1>1, <2>1, <2>2, <2>4, <2>7, NobodyAssumption, Zenon DEF SecretsInv, ServingOK, e
  <2>11. OneReply'
    BY <2>2, <2>4, <2>7, Zenon DEF SecretsInv, OneReply
  <2>12. \A d \in Devices : \A r \in DOMAIN (node'[d].invites) : InviteOK(d, r)'
    BY <2>8, <2>9, Zenon
  <2> QED BY <2>1, <2>10, <2>11, <2>12, Zenon DEF SecretsInv, HandedOK
<1> QED BY <1>2, <1>3, Zenon

LEMMA ReplySecrets ==
    ASSUME Base, SecretsInv, NEW x \in serving, Replies(x)
    PROVE  SecretsInv'
<1> DEFINE s == x.secret
           y == [x EXCEPT !.step = "sent"]
<1>1. /\ x.step = "replying" /\ x.at \in Devices /\ DOMAIN x = ServingFields
      /\ s \in Secrets /\ handed[s].by # Nobody /\ handed[s].to = {}
  BY Zenon DEF Replies, SecretsInv, ServingOK
<1>2. UNCHANGED node
  BY Zenon DEF Replies
<1>3. CASE UNCHANGED handed /\ Ends(x)
  BY <1>2, <1>3, SecretsKept, Zenon DEF Ends
<1>4. CASE /\ handed' = [handed EXCEPT ![s].to = @ \cup {<<x.call, x.round>>}]
           /\ Step(x, "sent")
  <2>1. /\ handed'[s].to = {<<x.call, x.round>>} /\ handed'[s].by = handed[s].by
        /\ \A r \in Secrets : r # s => handed'[r] = handed[r]
    BY <1>1, <1>4, Zenon DEF Base, TablesOK
  <2>2. /\ serving' = (serving \ {x}) \cup {y}
        /\ y.step = "sent" /\ y.secret = s /\ y.at = x.at /\ DOMAIN y = ServingFields
    BY <1>1, <1>4, Zenon DEF Step, ServingFields
  <2> HIDE DEF s, y
  <2>3. ASSUME NEW d \in Devices, NEW r \in DOMAIN node[d].invites
        PROVE  InviteOK(d, r)'
    <3>1. InviteOK(d, r)
      BY Zenon DEF SecretsInv
    <3>2. r = s => node[d].invites[r].fate # "pending"
      BY <1>1, <3>1, Zenon DEF InviteOK, s
    <3> QED BY <1>2, <2>1, <2>2, <3>1, <3>2, Zenon DEF InviteOK
  <2>4. \A r \in Secrets : HandedOK(r)'
    BY <1>1, <2>1 DEF SecretsInv, HandedOK
  <2>5. ASSUME NEW z \in serving' PROVE ServingOK(z)'
    <3>1. CASE z = y
      BY <1>1, <2>1, <2>2, <3>1, Zenon DEF ServingOK
    <3>2. CASE z \in serving /\ z # x
      <4>1. z.step = "replying" => z.secret # s
        BY <1>1, <3>2, Zenon DEF SecretsInv, OneReply, s
      <4> QED BY <2>1, <3>2, <4>1, Zenon DEF SecretsInv, ServingOK
    <3> QED BY <2>2, <3>1, <3>2, Zenon
  <2>6. OneReply'
    BY <2>2, Zenon DEF SecretsInv, OneReply
  <2> QED BY <1>2, <2>3, <2>4, <2>5, <2>6, Zenon DEF SecretsInv
<1> QED BY <1>3, <1>4, Zenon DEF Replies

LEMMA MarkSecrets ==
    ASSUME Base, SecretsInv, NEW x \in serving, MarksUsed(x)
    PROVE  SecretsInv'
<1> DEFINE e == x.at
           y == [x EXCEPT !.step = "lingering"]
<1>1. /\ e \in Devices /\ DOMAIN x = ServingFields
      /\ x.secret \in Secrets /\ handed[x.secret].to # {}
  BY Zenon DEF MarksUsed, SecretsInv, ServingOK
<1>2. UNCHANGED handed /\ node' = [node EXCEPT ![e].invites = MarkedUsed(@, x.secret, At(x.call))]
  BY Zenon DEF MarksUsed
<1>3. /\ serving' = (serving \ {x}) \cup {y}
      /\ y.step = "lingering" /\ y.at = x.at /\ DOMAIN y = ServingFields
  BY <1>1, Zenon DEF MarksUsed, Step, ServingFields
<1>m. /\ node'[e].invites = MarkedUsed(node[e].invites, x.secret, At(x.call))
      /\ \A d \in Devices : d # e => node'[d] = node[d]
  BY <1>1, <1>2, Zenon DEF Base, NodesOK, NodeFields
<1>4. CASE ~(x.secret \in DOMAIN node[e].invites /\ node[e].invites[x.secret].fate = "burned")
  <2>0. node'[e].invites = node[e].invites
    BY <1>m, <1>4, Zenon DEF MarkedUsed
  <2>1. \A d \in Devices : node'[d].invites = node[d].invites
    BY <1>m, <2>0, Zenon
  <2> HIDE DEF e, y
  <2> QED BY <1>1, <1>2, <1>3, <2>1, SecretsKept, Zenon DEF e
<1>5. CASE x.secret \in DOMAIN node[e].invites /\ node[e].invites[x.secret].fate = "burned"
  <2>1. InviteOK(e, x.secret)
    BY <1>1, <1>5, Zenon DEF SecretsInv
  <2>0. node'[e].invites = [node[e].invites EXCEPT ![x.secret].fate = "used",
                                                    ![x.secret].newcomer = At(x.call)]
    BY <1>m, <1>5, Zenon DEF MarkedUsed
  <2>2. /\ DOMAIN (node'[e].invites) = DOMAIN node[e].invites
        /\ node'[e].invites[x.secret].fate = "used"
        /\ DOMAIN (node'[e].invites[x.secret]) = InviteFields
        /\ \A r \in DOMAIN node[e].invites :
              r # x.secret => node'[e].invites[r] = node[e].invites[r]
    BY <1>5, <2>0, <2>1, ZenonT(40) DEF InviteOK, InviteFields
  <2>3. \A d \in Devices : d # e => node'[d] = node[d]
    BY <1>m, Zenon
  <2> HIDE DEF e, y
  <2>4. InviteOK(e, x.secret)'
    BY <1>1, <1>2, <2>1, <2>2, Zenon DEF InviteOK
  <2>5. ASSUME NEW d \in Devices, NEW r \in DOMAIN (node'[d].invites), <<d, r>> # <<e, x.secret>>
        PROVE  InviteOK(d, r)'
    <3>1. r \in DOMAIN node[d].invites /\ node'[d].invites[r] = node[d].invites[r]
      BY <2>2, <2>3, <2>5, Zenon
    <3>2. InviteOK(d, r)
      BY <3>1, Zenon DEF SecretsInv
    <3> QED BY <1>2, <1>3, <3>1, <3>2, Zenon DEF InviteOK
  <2>6. \A d \in Devices : \A r \in DOMAIN (node'[d].invites) : InviteOK(d, r)'
    BY <2>4, <2>5, Zenon
  <2>7. \A z \in serving' : ServingOK(z)'
    BY <1>1, <1>2, <1>3, Zenon DEF SecretsInv, ServingOK, e
  <2>8. OneReply'
    BY <1>3, Zenon DEF SecretsInv, OneReply
  <2> QED BY <1>2, <2>6, <2>7, <2>8, Zenon DEF SecretsInv, HandedOK
<1> QED BY <1>4, <1>5, Zenon

\* A call presents a secret and waits: it leaves the secrets alone.
LEMMA CallInvites ==
    ASSUME Base, NEW c \in Calls, CallActs(c) \/ CallTurns(c)
    PROVE  UNCHANGED handed /\ \A d \in Devices : node'[d].invites = node[d].invites
<1> USE DEF Base, NodesOK, NodeFields
<1>0. At(c) \in Devices
  BY CallFacts, Zenon
<1>1. CASE \/ CreatePms(c) \/ CreateFails(c) \/ Dials(c) \/ Unanswered(c) \/ LinkImports(c)
           \/ LinkCatchesUp(c) \/ LinkTimesOut(c) \/ LinkGivesUp(c)
  BY <1>1, Zenon DEF CreatePms, CreateFails, Dials, Unanswered, LinkImports, LinkCatchesUp,
              LinkTimesOut, LinkGivesUp
<1>2. CASE CreateBegins(c)
  BY <1>0, <1>2, Zenon DEF CreateBegins, Provisioned
<1>3. CASE CreateArms(c)
  BY <1>0, <1>3, Zenon DEF CreateArms, Governed
<1>12. CASE LinkArms(c)
  BY <1>0, <1>12, Zenon DEF LinkArms, Governed
<1>4. CASE RollsBack(c)
  BY <1>0, <1>4, Zenon DEF RollsBack, Unhosted
<1>5. CASE Commits(c)
  BY <1>0, <1>5, Zenon DEF Commits
<1>6. CASE Recorded(c)
  BY <1>0, <1>6, Zenon DEF Recorded, Admitted
<1>7. CASE RecordFails(c) \/ LinkFails(c) \/ LinkConfirms(c)
  BY <1>0, <1>7 DEF RecordFails, LinkFails, LinkConfirms
<1>8. CASE Releases(c)
  BY <1>0, <1>8, Zenon DEF Releases
<1>9. CASE Cancels(c)
  BY <1>0, <1>9, Zenon DEF Cancels
<1>10. CASE LinkProvisions(c)
  <2>1. UNCHANGED handed
    BY <1>10, Zenon DEF LinkProvisions
  <2>2. \/ UNCHANGED node
        \/ node' = [node EXCEPT ![At(c)] = [Provisioned(@, Of(c)) EXCEPT !.lock = c]]
    BY <1>10, Zenon DEF LinkProvisions
  <2>3. CASE UNCHANGED node
    BY <2>1, <2>3, Zenon
  <2>4. CASE node' = [node EXCEPT ![At(c)] = [Provisioned(@, Of(c)) EXCEPT !.lock = c]]
    BY <1>0, <2>1, <2>4, Zenon DEF Provisioned
  <2> QED BY <2>2, <2>3, <2>4, Zenon
<1>11. CASE \E s \in Secrets : LinkBegins(c, s)
  <2>1. UNCHANGED handed /\ node' = [node EXCEPT ![At(c)].inflight = @ \cup {Of(c)}]
    BY <1>11, Zenon DEF LinkBegins
  <2> QED BY <1>0, <2>1, Zenon
<1> QED BY <1>1, <1>2, <1>3, <1>4, <1>5, <1>6, <1>7, <1>8, <1>9, <1>10, <1>11, <1>12, Zenon
       DEF CallActs, CallTurns

\* What runs detached on a device leaves its secrets alone, and a process that
\* goes loses them.
LEMMA DeviceInvites ==
    ASSUME Base, NEW d \in Devices, DetachedActs(d) \/ DeviceActs(d)
    PROVE  /\ UNCHANGED handed
           /\ \A e \in Devices : node'[e].invites = node[e].invites \/ node'[e].invites = <<>>
<1> USE DEF Base, NodesOK, NodeFields
<1>1. CASE \E w \in node[d].writers : WriterEnds(d, w)
  <2>1. PICK w \in node[d].writers : WriterEnds(d, w)
    BY <1>1, Zenon
  <2> QED BY <2>1, Zenon DEF WriterEnds
<1>2. CASE \E t \in node[d].tasks : TaskUndoes(d, t)
  <2>1. PICK t \in node[d].tasks : TaskUndoes(d, t)
    BY <1>2, Zenon
  <2> QED BY <2>1, Zenon DEF TaskUndoes, Unhosted
<1>3. CASE \E t \in node[d].tasks : TaskReleases(d, t)
  <2>1. PICK t \in node[d].tasks : TaskReleases(d, t)
    BY <1>3, Zenon
  <2> QED BY <2>1, Zenon DEF TaskReleases
<1>4. CASE Ready(d) \/ Drains(d) \/ ShutsDown(d) \/ StoreSettles(d)
  BY <1>4 DEF Ready, Drains, ShutsDown, StoreSettles
<1>5. CASE Starts(d)
  BY <1>5, Zenon DEF Starts, Assembled, Off
<1>6. CASE Stops(d) \/ StartFails(d)
  BY <1>6, Zenon DEF Stops, StartFails, Stopped, Off
<1>7. CASE Crashes(d)
  BY <1>7, Zenon DEF Crashes, Off
<1> QED BY <1>1, <1>2, <1>3, <1>4, <1>5, <1>6, <1>7, Zenon DEF DetachedActs, DeviceActs

\* Every step keeps who a secret belongs to.
LEMMA SecretsStep == Base /\ SecretsInv /\ HostStep => SecretsInv'
<1> SUFFICES ASSUME Base, SecretsInv, HostStep PROVE SecretsInv'
  BY Zenon
<1>1. ASSUME NEW d \in Devices, NEW i \in Identities, MintInvite(d, i) PROVE SecretsInv'
  BY <1>1, MintSecrets, Zenon
<1>2. ASSUME NEW d \in Devices, NEW s \in Secrets, Lapses(d, s) PROVE SecretsInv'
  BY <1>2, LapseSecrets, Zenon
<1>3. ASSUME NEW x \in serving, Burns(x) \/ Replies(x) \/ MarksUsed(x) PROVE SecretsInv'
  BY <1>3, BurnSecrets, ReplySecrets, MarkSecrets, Zenon
<1>4. ASSUME NEW x \in serving, Enters(x) \/ Leaves(x) PROVE SecretsInv'
  <2>1. x.at \in Devices /\ DOMAIN x = ServingFields
    BY Zenon DEF SecretsInv, ServingOK
  <2>2. \/ serving' = serving \ {x}
        \/ serving' = (serving \ {x}) \cup {[x EXCEPT !.step = "entered"]}
    BY <1>4, Zenon DEF Enters, Leaves, Ends, Step
  <2>3. /\ [x EXCEPT !.step = "entered"].step = "entered" /\ [x EXCEPT !.step = "entered"].at = x.at
        /\ DOMAIN [x EXCEPT !.step = "entered"] = ServingFields
    BY <2>1, Zenon DEF ServingFields
  <2>4. UNCHANGED <<handed, node>>
    BY <1>4, Zenon DEF Enters, Leaves
  <2> QED BY <2>1, <2>2, <2>3, <2>4, SecretsKept, Zenon
<1>5. ASSUME NEW c \in Calls, CallActs(c) \/ CallTurns(c) PROVE SecretsInv'
  <2>1. CASE Dials(c)
    <3>1. Inviter(c) \in Devices
      BY <2>1, CallFacts, Zenon DEF Base, CallsOK, LinkOnly, Dials
    <3> DEFINE x == [call |-> c, round |-> calls[c].round, secret |-> calls[c].secret,
                     at |-> Inviter(c), step |-> "arriving"]
    <3>2. /\ serving' = serving \cup {x} /\ DOMAIN x = ServingFields
          /\ x.at = Inviter(c) /\ x.step = "arriving"
      BY <2>1, Zenon DEF Dials, ServingFields
    <3> HIDE DEF x
    <3> QED BY <1>5, <3>1, <3>2, CallInvites, SecretsKept, Zenon
  <2>2. CASE ~Dials(c)
    <3>1. UNCHANGED serving
      BY <1>5, <2>2, Zenon
         DEF CallActs, CallTurns, CreateBegins, CreatePms, CreateArms, CreateFails, Commits, Recorded,
             RecordFails, LinkBegins, Unanswered, LinkProvisions, LinkImports, LinkArms, LinkFails,
             LinkCatchesUp, LinkTimesOut, LinkGivesUp, LinkConfirms, Releases, RollsBack, Cancels
    <3> QED BY <1>5, <3>1, CallInvites, SecretsKept, Zenon
  <2> QED BY <2>1, <2>2, Zenon
<1>6. ASSUME NEW d \in Devices, DetachedActs(d) \/ DeviceActs(d) PROVE SecretsInv'
  <2>1. serving' \subseteq serving
    BY <1>6, Zenon DEF DetachedActs, DeviceActs, WriterEnds, TaskUndoes, TaskReleases, Ready, Drains,
                Waiting, Stops, StoreSettles, Starts, ShutsDown, StartFails, Crashes
  <2> QED BY <1>6, <2>1, DeviceInvites, SecretsKept, Zenon
<1>7. ASSUME NEW d \in Devices, NEW i \in Identities, Recovers(d, i) PROVE SecretsInv'
  <2>1. UNCHANGED <<handed, serving>> /\ \A e \in Devices : node'[e].invites = node[e].invites
    BY <1>7, Zenon DEF Recovers, Governed, Base, NodesOK, NodeFields
  <2> QED BY <2>1, SecretsKept, Zenon
<1>8. CASE UNCHANGED <<node, handed, serving>>
  BY <1>8, SecretsKept, Zenon
<1> QED BY <1>1, <1>2, <1>3, <1>4, <1>5, <1>6, <1>7, <1>8, Zenon
       DEF HostStep, ServingActs, Sweeps, Exchanges, Filed, hostCore

-----------------------------------------------------------------------------
(* Who undoes what.  A half of a node is undone by the call that brought it *)
(* up or by the task its dropped guard spawned.  A link reserves the        *)
(* identity on its device until that undo is over, so a link has one undoer *)
(* at most; nothing of an identity is shared before its create is over, so  *)
(* a create has no link beside it.                                          *)

Fresh(c) == calls[c].pc = "idle" /\ calls[c].round = 0
Undone(c) == \E t \in node[At(c)].tasks : t.identity = Of(c) /\ ~t.link

\* A create that was not made yet, runs, or is being undone.
Young(c) == Fresh(c) \/ calls[c].pc # "idle" \/ Undone(c)

CallsHold ==
    \A c \in Calls :
        /\ calls[c].round \in Nat
        /\ calls[c].pc # "idle" => calls[c].round # 0 /\ Up(At(c))
        /\ calls[c].wrote = "ok" => Of(c) \in record[At(c)]

\* What a call has brought about by the step it is at.
Held(c) ==
    /\ calls[c].pc \in {"keying", "arm", "catch_up", "commit", "record"} =>
          Of(c) \in DOMAIN store[At(c)]
    /\ calls[c].pc = "record" => Of(c) \in DOMAIN disk[At(c)]
    /\ calls[c].pc \in {"catch_up", "commit", "record"} => node[At(c)].half[Of(c)] = "armed"

WritersOK ==
    \A d \in Devices : \A w \in node[d].writers : w.call \in Calls /\ At(w.call) = d

TasksOK ==
    \A d \in Devices :
        /\ node[d].power \in {"off", "starting"} => node[d].tasks = {}
        /\ \A t \in node[d].tasks :
              /\ DOMAIN t = {"identity", "pms", "link", "step"}
              /\ ~t.link => \E c \in Calls : ~IsLink(c) /\ At(c) = d /\ Of(c) = t.identity

\* A reservation has one holder, a link that runs or a task of a dropped one.
Reserved ==
    /\ \A c \in Calls : IsLink(c) /\ calls[c].pc # "idle" =>
          /\ Of(c) \in node[At(c)].inflight
          /\ \A b \in Calls :
                IsLink(b) /\ calls[b].pc # "idle" /\ At(b) = At(c) /\ Of(b) = Of(c) => b = c
          /\ \A t \in node[At(c)].tasks : t.link => t.identity # Of(c)
    /\ \A d \in Devices : \A t \in node[d].tasks : t.link =>
          /\ t.identity \in node[d].inflight
          /\ \A u \in node[d].tasks : u.link /\ u.identity = t.identity => u = t

\* Nothing is shared of an identity whose create is not over.
UnsharedOf(c) ==
    /\ \A d \in Devices : Of(c) \notin node[d].hosted
    /\ \A d \in Devices : d # At(c) => Of(c) \notin record[d]
    /\ \A s \in Secrets : handed[s].by # Nobody => handed[s].of # Of(c)
    /\ \A b \in Calls : IsLink(b) /\ Of(b) = Of(c) => calls[b].pc = "idle"
    /\ \A d \in Devices : \A t \in node[d].tasks : t.identity = Of(c) => ~t.link /\ d = At(c)
    /\ \A d \in Devices : \A w \in node[d].writers : Of(w.call) = Of(c) => w.call = c
    /\ Fresh(c) \/ calls[c].pc # "idle" => ~Undone(c)
    /\ Fresh(c) \/ calls[c].pc = "create" =>
          \A d \in Devices : /\ Of(c) \notin record[d]
                             /\ \A w \in node[d].writers : Of(w.call) # Of(c)
Unshared == \A c \in Calls : ~IsLink(c) /\ Young(c) => UnsharedOf(c)

\* What may still be undone is neither hosted nor promised.
Owns(c) == calls[c].pc \notin {"idle", "confirm", "release"}
Unpromised ==
    /\ \A c \in Calls : Owns(c) => Of(c) \notin node[At(c)].hosted \cup promised[At(c)]
    /\ \A d \in Devices : \A t \in node[d].tasks : t.step = "undo" =>
          t.identity \notin node[d].hosted \cup promised[d]

Kept ==
    \A d \in Devices :
        /\ promised[d] \subseteq record[d] \cap DOMAIN store[d] \cap DOMAIN disk[d]
        /\ Up(d) => promised[d] \subseteq node[d].hosted
        /\ \A i \in node[d].hosted : node[d].half[i] = "armed" /\ i \in DOMAIN store[d]

Halves ==
    \A d \in Devices :
        /\ DOMAIN node[d].half = Identities
        /\ record[d] \cup node[d].hosted \subseteq Identities
        /\ node[d].power = "starting" => \A i \in Identities : node[d].half[i] # "none" =>
              node[d].half[i] = "armed" /\ i \in Recoverable(d)

\* A half that is up is hosted or in the hands of someone who will host or undo
\* it.
HalvesOwned ==
    \A d \in Devices, i \in Identities : node[d].half[i] # "none" =>
        \/ i \in node[d].hosted \/ node[d].power = "starting"
        \/ \E c \in Calls : At(c) = d /\ Of(c) = i /\ calls[c].pc \in Guarded
        \/ \E t \in node[d].tasks : t.identity = i /\ t.step = "undo"

OwnersInv ==
    /\ CallsHold /\ (\A c \in Calls : Held(c)) /\ WritersOK /\ TasksOK /\ Reserved /\ Unshared
    /\ Unpromised /\ Kept /\ Halves /\ HalvesOwned

\* The part of a node that says who owns what is left alone.
SameOwners(d) ==
    /\ node'[d].power = node[d].power /\ node'[d].hosted = node[d].hosted
    /\ node'[d].inflight = node[d].inflight /\ node'[d].tasks = node[d].tasks

SameHanded ==
    \A s \in Secrets : handed'[s].by = handed[s].by /\ handed'[s].of = handed[s].of

\* What a step may do to the stores without letting a replica go.
StoresKept ==
    \A d \in Devices :
        /\ DOMAIN store[d] \subseteq DOMAIN (store'[d])
        /\ DOMAIN (disk'[d]) = DOMAIN disk[d] \/ DOMAIN (disk'[d]) = DOMAIN store[d]

\* A step that moves no call, and leaves the owners and the replicas alone.
LEMMA OwnersKept ==
    ASSUME Base, OwnersInv, UNCHANGED <<case, record, promised>>, SameHanded, StoresKept,
           \A c \in Calls : calls'[c] = calls[c],
           \A d \in Devices : /\ SameOwners(d) /\ node'[d].half = node[d].half
                              /\ node'[d].writers \subseteq node[d].writers
    PROVE  OwnersInv'
<1> USE DEF SameOwners
<1>0. case \in DOMAIN Cases
  BY Zenon DEF Base
<1>c. /\ Calls' = Calls
      /\ \A z : At(z)' = At(z) /\ Of(z)' = Of(z) /\ IsLink(z)' = IsLink(z)
      /\ \A z \in Calls : At(z) \in Devices /\ Of(z) \in Identities
  BY <1>0, CallFacts, CaseFixed, Zenon
<1>1. CallsHold'
  BY <1>c, ZenonT(40) DEF OwnersInv, CallsHold, Up
<1>2. \A c \in Calls' : Held(c)'
  BY <1>c, Zenon DEF OwnersInv, Held, StoresKept
<1>3. WritersOK' /\ TasksOK'
  BY <1>c DEF OwnersInv, WritersOK, TasksOK
<1>4. Reserved'
  BY <1>c DEF OwnersInv, Reserved
<1>5. ASSUME NEW c \in Calls, ~IsLink(c), Young(c)' PROVE UnsharedOf(c)'
  <2>1. Young(c) /\ (Fresh(c)' <=> Fresh(c)) /\ (Undone(c)' <=> Undone(c))
    BY <1>c, <1>5, Zenon DEF Young, Fresh, Undone
  <2>2. UnsharedOf(c)
    BY <1>5, <2>1, Zenon DEF OwnersInv, Unshared
  <2> QED BY <1>c, <2>1, <2>2 DEF UnsharedOf, SameHanded
<1>6. Unpromised'
  BY <1>c, Zenon DEF OwnersInv, Unpromised, Owns
<1>7. Kept'
  BY DEF OwnersInv, Kept, Up, StoresKept
<1>8. Halves'
  BY DEF OwnersInv, Halves, Recoverable, StoresKept
<1>9. HalvesOwned'
  BY <1>c DEF OwnersInv, HalvesOwned
<1>10. Unshared'
  BY <1>c, <1>5, Zenon DEF Unshared
<1> QED BY <1>1, <1>2, <1>3, <1>4, <1>6, <1>7, <1>8, <1>9, <1>10, Zenon DEF OwnersInv

\* What a device has of an identity belongs to one call or task there.
LEMMA Alone ==
    ASSUME Base, OwnersInv, NEW c \in Calls, calls[c].pc # "idle"
    PROVE  /\ \A b \in Calls :
                 At(b) = At(c) /\ Of(b) = Of(c) /\ calls[b].pc # "idle" => b = c
           /\ \A t \in node[At(c)].tasks : t.identity # Of(c)
           /\ \A b \in Calls : ~IsLink(b) /\ Young(b) /\ Of(b) = Of(c) => b = c
<1>0. case \in DOMAIN Cases
  BY Zenon DEF Base
<1>1. ASSUME NEW b \in Calls, ~IsLink(b), Young(b), Of(b) = Of(c) PROVE b = c
  <2>1. UnsharedOf(b)
    BY <1>1, Zenon DEF OwnersInv, Unshared
  <2>2. ~IsLink(c)
    BY <1>1, <2>1, Zenon DEF UnsharedOf
  <2> QED BY <1>0, <1>1, <2>2, CallFacts, Zenon
<1>2. ASSUME NEW b \in Calls, At(b) = At(c), Of(b) = Of(c), calls[b].pc # "idle" PROVE b = c
  <2>1. CASE ~IsLink(b)
    BY <1>1, <1>2, <2>1, Zenon DEF Young
  <2>2. CASE ~IsLink(c)
    <3>1. UnsharedOf(c)
      BY <2>2, Zenon DEF OwnersInv, Unshared, Young
    <3>2. ~IsLink(b)
      BY <1>2, <3>1, Zenon DEF UnsharedOf
    <3> QED BY <2>1, <3>2, Zenon
  <2>3. CASE IsLink(b) /\ IsLink(c)
    BY <1>2, <2>3, Zenon DEF OwnersInv, Reserved
  <2> QED BY <2>1, <2>2, <2>3, Zenon
<1>3. ASSUME NEW t \in node[At(c)].tasks, t.identity = Of(c) PROVE FALSE
  <2>1. CASE ~t.link
    <3>1. PICK b \in Calls : ~IsLink(b) /\ At(b) = At(c) /\ Of(b) = t.identity
      BY <1>0, <2>1, CallFacts, Zenon DEF OwnersInv, TasksOK
    <3>2. Undone(b)
      BY <1>3, <2>1, <3>1, Zenon DEF Undone
    <3>3. b = c /\ UnsharedOf(b)
      BY <1>1, <1>3, <3>1, <3>2, Zenon DEF Young, OwnersInv, Unshared
    <3> QED BY <3>2, <3>3, Zenon DEF UnsharedOf
  <2>2. CASE t.link /\ IsLink(c)
    BY <1>3, <2>2, Zenon DEF OwnersInv, Reserved
  <2>3. CASE t.link /\ ~IsLink(c)
    <3>1. UnsharedOf(c)
      BY <2>3, Zenon DEF OwnersInv, Unshared, Young
    <3> QED BY <1>0, <1>3, <2>3, <3>1, CallFacts, Zenon DEF UnsharedOf
  <2> QED BY <2>1, <2>2, <2>3, Zenon
<1> QED BY <1>1, <1>2, <1>3, Zenon

\* A running call goes on to another step, what it has brought about kept.
LEMMA CallMoves ==
    ASSUME Base, OwnersInv, UNCHANGED <<case, record, promised>>, SameHanded, StoresKept,
           NEW c \in Calls,
           calls[c].pc # "idle", calls'[c].pc \notin {"idle", "create"},
           \A b \in Calls : b # c => calls'[b] = calls[b],
           calls'[c].round = calls[c].round, calls'[c].wrote = "ok" => calls[c].wrote = "ok",
           Owns(c)' => Owns(c), calls[c].pc \in Guarded => calls'[c].pc \in Guarded,
           Held(c)',
           \A d \in Devices :
              /\ SameOwners(d) /\ DOMAIN node'[d].half = DOMAIN node[d].half
              /\ \A i \in Identities : node'[d].half[i] # node[d].half[i] =>
                    /\ d = At(c) /\ i = Of(c) /\ calls'[c].pc \in Guarded
                    /\ node'[d].half[i] = "armed" \/ node[d].half[i] = "none"
              /\ \A w \in node'[d].writers : w \in node[d].writers \/ (d = At(c) /\ w.call = c)
    PROVE  OwnersInv'
<1> USE DEF SameOwners
<1>0. case \in DOMAIN Cases
  BY Zenon DEF Base
<1>c. /\ Calls' = Calls
      /\ \A z : At(z)' = At(z) /\ Of(z)' = Of(z) /\ IsLink(z)' = IsLink(z)
      /\ \A z \in Calls : At(z) \in Devices /\ Of(z) \in Identities
  BY <1>0, CallFacts, CaseFixed, Zenon
<1>1. CallsHold'
  BY <1>c DEF OwnersInv, CallsHold, Up
<1>2. ASSUME NEW b \in Calls, b # c PROVE Held(b)'
  <2>1. Held(b) /\ calls'[b] = calls[b]
    BY <1>2, Zenon DEF OwnersInv
  <2>2. node[At(b)].half[Of(b)] = "armed" => node'[At(b)].half[Of(b)] = "armed"
    BY <1>c, Zenon
  <2> QED BY <1>c, <2>1, <2>2, Zenon DEF Held, StoresKept
<1>3. WritersOK' /\ TasksOK'
  BY <1>c DEF OwnersInv, WritersOK, TasksOK
<1>4. Reserved'
  BY <1>c DEF OwnersInv, Reserved
<1>5. ASSUME NEW b \in Calls, ~IsLink(b), Young(b)' PROVE UnsharedOf(b)'
  <2>1. Young(b) /\ (Fresh(b)' => Fresh(b)) /\ (Undone(b)' <=> Undone(b))
    BY <1>c, <1>5, Zenon DEF Young, Fresh, Undone
  <2>2. UnsharedOf(b)
    BY <1>5, <2>1, Zenon DEF OwnersInv, Unshared
  <2>3. Of(b) = Of(c) => b = c
    BY <1>5, <2>1, Alone, Zenon
  <2>4. b = c => ~Fresh(b)' /\ calls'[b].pc # "create"
    BY Zenon DEF Fresh
  <2>5. /\ \A d \in Devices : Of(b) \notin node'[d].hosted
        /\ \A d \in Devices : d # At(b) => Of(b) \notin record[d]
        /\ \A s \in Secrets : handed'[s].by # Nobody => handed'[s].of # Of(b)
        /\ \A d \in Devices : \A t \in node'[d].tasks : t.identity = Of(b) => ~t.link /\ d = At(b)
    BY <2>2, Zenon DEF UnsharedOf, SameHanded
  <2>6. \A a \in Calls : IsLink(a) /\ Of(a) = Of(b) => calls'[a].pc = "idle"
    BY <1>5, <2>2, <2>3, Zenon DEF UnsharedOf
  <2>7. \A d \in Devices : \A w \in node'[d].writers : Of(w.call) = Of(b) => w.call = b
    BY <2>2, <2>3, ZenonT(40) DEF UnsharedOf
  <2>8. Fresh(b)' \/ calls'[b].pc # "idle" => ~Undone(b)'
    BY <2>1, <2>2, Zenon DEF UnsharedOf
  <2>9. Fresh(b)' \/ calls'[b].pc = "create" =>
          \A d \in Devices : /\ Of(b) \notin record[d]
                             /\ \A w \in node'[d].writers : Of(w.call) # Of(b)
    BY <2>1, <2>2, <2>3, <2>4, Zenon DEF UnsharedOf
  <2> QED BY <1>c, <2>5, <2>6, <2>7, <2>8, <2>9, Zenon DEF UnsharedOf
<1>6. Unpromised'
  BY <1>c, Zenon DEF OwnersInv, Unpromised, Owns
<1>7. Kept'
  <2>1. ASSUME NEW d \in Devices, NEW i \in node'[d].hosted
        PROVE  node'[d].half[i] = "armed" /\ i \in DOMAIN (store'[d])
    <3>1. /\ i \in node[d].hosted /\ node[d].half[i] = "armed"
          /\ i \in DOMAIN store[d] /\ i \in Identities
      BY <2>1, Zenon DEF OwnersInv, Kept, Halves
    <3> QED BY <3>1, Zenon DEF StoresKept
  <2> QED BY <2>1 DEF OwnersInv, Kept, Up, StoresKept
<1>8. Halves'
  BY <1>c DEF OwnersInv, Halves, Recoverable, StoresKept, CallsHold, Up
<1>9. HalvesOwned'
  BY <1>c DEF OwnersInv, HalvesOwned
<1>10. Unshared'
  BY <1>c, <1>5, Zenon DEF Unshared
<1> QED BY <1>c, <1>1, <1>2, <1>3, <1>4, <1>6, <1>7, <1>8, <1>9, <1>10, Zenon DEF OwnersInv

\* A node that is assembled or stopped holds nothing, and its calls are gone.
LEMMA NodeClears ==
    ASSUME Base, OwnersInv, UNCHANGED <<case, record, promised, handed>>, NEW e \in Devices,
           \A d \in Devices : d # e => node'[d] = node[d] /\ store'[d] = store[d] /\ disk'[d] = disk[d],
           node'[e].power \in {"off", "starting"},
           node'[e].half = [i \in Identities |-> "none"],
           node'[e].hosted = {}, node'[e].inflight = {}, node'[e].tasks = {},
           node'[e].writers \subseteq node[e].writers,
           store'[e] \in {store[e], disk[e]}, disk'[e] \in {store[e], disk[e]},
           \A c \in Calls :
              /\ calls'[c].round = calls[c].round /\ calls'[c].wrote = calls[c].wrote
              /\ calls'[c].pc = IF At(c) = e THEN "idle" ELSE calls[c].pc
    PROVE  OwnersInv'
<1>0. case \in DOMAIN Cases
  BY Zenon DEF Base
<1>c. /\ Calls' = Calls
      /\ \A z : At(z)' = At(z) /\ Of(z)' = Of(z) /\ IsLink(z)' = IsLink(z)
      /\ \A z \in Calls : At(z) \in Devices /\ Of(z) \in Identities
  BY <1>0, CallFacts, CaseFixed, Zenon
<1>1. CallsHold'
  BY <1>c DEF OwnersInv, CallsHold, Up
<1>2. \A c \in Calls' : Held(c)'
  BY <1>c DEF OwnersInv, Held
<1>3. WritersOK' /\ TasksOK'
  BY <1>c DEF OwnersInv, WritersOK, TasksOK
<1>4. Reserved'
  BY <1>c DEF OwnersInv, Reserved
<1>5. ASSUME NEW c \in Calls, ~IsLink(c), Young(c)' PROVE UnsharedOf(c)'
  <2>1. Young(c) /\ (Fresh(c)' => Fresh(c)) /\ (Undone(c)' => Undone(c))
    BY <1>c, <1>5, Zenon DEF Young, Fresh, Undone, OwnersInv, CallsHold
  <2>2. UnsharedOf(c)
    BY <1>5, <2>1, Zenon DEF OwnersInv, Unshared
  <2>3. /\ \A d \in Devices : Of(c) \notin node'[d].hosted
        /\ \A d \in Devices : \A t \in node'[d].tasks : t.identity = Of(c) => ~t.link /\ d = At(c)
        /\ \A d \in Devices : \A w \in node'[d].writers : Of(w.call) = Of(c) => w.call = c
    BY <2>2, Zenon DEF UnsharedOf
  <2>4. \A b \in Calls : IsLink(b) /\ Of(b) = Of(c) => calls'[b].pc = "idle"
    BY <2>2, Zenon DEF UnsharedOf
  <2>5. Fresh(c)' \/ calls'[c].pc # "idle" => ~Undone(c)'
    BY <2>1, <2>2, Zenon DEF UnsharedOf
  <2>6. Fresh(c)' \/ calls'[c].pc = "create" =>
          \A d \in Devices : /\ Of(c) \notin record[d]
                             /\ \A w \in node'[d].writers : Of(w.call) # Of(c)
    BY <2>1, <2>2, Zenon DEF UnsharedOf
  <2> QED BY <1>c, <2>2, <2>3, <2>4, <2>5, <2>6, ZenonT(40) DEF UnsharedOf
<1>6. Unpromised'
  BY <1>c, Zenon DEF OwnersInv, Unpromised, Owns
<1>7. Kept'
  BY DEF OwnersInv, Kept, Up
<1>8. Halves'
  BY DEF OwnersInv, Halves, Recoverable
<1>9. HalvesOwned'
  BY <1>c DEF OwnersInv, HalvesOwned
<1>10. Unshared'
  BY <1>c, <1>5, Zenon DEF Unshared
<1> QED BY <1>1, <1>2, <1>3, <1>4, <1>6, <1>7, <1>8, <1>9, <1>10, Zenon DEF OwnersInv

\* A node that shuts down runs no call of its host any more.
LEMMA NodeWindsDown ==
    ASSUME Base, OwnersInv, UNCHANGED <<case, record, promised, handed, calls, store, disk>>,
           NEW e \in Devices,
           \A d \in Devices : d # e => node'[d] = node[d],
           node[e].power \in {"up", "stopping"}, node'[e].power \in {"stopping", "cleaning"},
           node'[e].half = node[e].half, node'[e].hosted = node[e].hosted,
           node'[e].inflight = node[e].inflight, node'[e].tasks = node[e].tasks,
           node'[e].writers = node[e].writers,
           \A c \in Calls : At(c) = e => calls[c].pc = "idle"
    PROVE  OwnersInv'
<1>0. case \in DOMAIN Cases
  BY Zenon DEF Base
<1>c. /\ Calls' = Calls
      /\ \A z : At(z)' = At(z) /\ Of(z)' = Of(z) /\ IsLink(z)' = IsLink(z)
      /\ \A z \in Calls : At(z) \in Devices /\ Of(z) \in Identities
  BY <1>0, CallFacts, CaseFixed, Zenon
<1>1. CallsHold'
  BY <1>c, Zenon DEF OwnersInv, CallsHold, Up
<1>2. \A c \in Calls' : Held(c)'
  BY <1>c, Zenon DEF OwnersInv, Held
<1>3. WritersOK' /\ TasksOK'
  BY <1>c DEF OwnersInv, WritersOK, TasksOK
<1>4. Reserved'
  BY <1>c DEF OwnersInv, Reserved
<1>5. ASSUME NEW c \in Calls, ~IsLink(c), Young(c)' PROVE UnsharedOf(c)'
  <2>1. Young(c) /\ (Fresh(c)' <=> Fresh(c)) /\ (Undone(c)' <=> Undone(c))
    BY <1>c, <1>5, Zenon DEF Young, Fresh, Undone
  <2>2. UnsharedOf(c)
    BY <1>5, <2>1, Zenon DEF OwnersInv, Unshared
  <2> QED BY <1>c, <2>1, <2>2 DEF UnsharedOf
<1>6. Unpromised'
  BY <1>c, Zenon DEF OwnersInv, Unpromised, Owns
<1>7. Kept'
  BY DEF OwnersInv, Kept, Up
<1>8. Halves'
  BY DEF OwnersInv, Halves, Recoverable
<1>9. HalvesOwned'
  BY <1>c DEF OwnersInv, HalvesOwned
<1>10. Unshared'
  BY <1>c, <1>5, Zenon DEF Unshared
<1> QED BY <1>1, <1>2, <1>3, <1>4, <1>6, <1>7, <1>8, <1>9, <1>10, Zenon DEF OwnersInv

\* A create begins: nothing of its identity is anywhere yet.
LEMMA CreateBeginsOwners ==
    ASSUME Base, OwnersInv, NEW c \in Calls, CreateBegins(c) PROVE OwnersInv'
<1> DEFINE e == At(c)
<1>0. case \in DOMAIN Cases /\ UNCHANGED case
  BY Zenon DEF Base, CreateBegins
<1>c. /\ Calls' = Calls /\ e \in Devices
      /\ \A z : At(z)' = At(z) /\ Of(z)' = Of(z) /\ IsLink(z)' = IsLink(z)
      /\ \A z \in Calls : At(z) \in Devices /\ Of(z) \in Identities
  BY <1>0, CallFacts, CaseFixed, Zenon
<1>1. /\ ~IsLink(c) /\ Fresh(c) /\ Up(e)
      /\ UNCHANGED <<case, store, disk, record, handed, promised>>
  BY Zenon DEF CreateBegins, Fresh
<1>2. /\ \A d \in Devices : SameOwners(d) /\ node'[d].writers = node[d].writers
      /\ \A d \in Devices : DOMAIN node'[d].half = DOMAIN node[d].half
      /\ \A d \in Devices, i \in Identities : node'[d].half[i] # node[d].half[i] =>
            d = e /\ i = Of(c) /\ node[d].half[i] = "none"
  BY <1>0, <1>c DEF CreateBegins, Provisioned, SameOwners, Base, NodesOK, NodeFields, OwnersInv, Halves
<1>3. /\ \A b \in Calls : b # c => calls'[b] = calls[b]
      /\ calls'[c].pc = "create" /\ calls'[c].round = 1 /\ calls'[c].wrote = "running"
  BY DEF CreateBegins, IdleCall, Base, CallsOK, CallFields
<1>4. UnsharedOf(c)
  BY <1>1, Zenon DEF OwnersInv, Unshared, Young
<1> HIDE DEF e
<1> USE DEF SameOwners
<1>5. CallsHold'
  BY <1>0, <1>c, <1>1, <1>2, <1>3 DEF OwnersInv, CallsHold, Up, e
<1>6. ASSUME NEW b \in Calls PROVE Held(b)'
  <2>1. CASE b = c
    BY <1>0, <1>c, <1>3, <2>1, Zenon DEF Held
  <2>2. CASE b # c
    <3>1. node[At(b)].half[Of(b)] = "armed" => node'[At(b)].half[Of(b)] = "armed"
      BY <1>0, <1>c, <1>2, Zenon
    <3> QED BY <1>0, <1>c, <1>1, <1>3, <2>2, <3>1, Zenon DEF OwnersInv, Held
  <2> QED BY <2>1, <2>2, Zenon
<1>7. WritersOK' /\ TasksOK'
  BY <1>0, <1>c, <1>2 DEF OwnersInv, WritersOK, TasksOK
<1>8. Reserved'
  BY <1>0, <1>c, <1>1, <1>2, <1>3 DEF OwnersInv, Reserved
<1>9. ASSUME NEW b \in Calls, ~IsLink(b), Young(b)' PROVE UnsharedOf(b)'
  <2>1. Young(b) /\ (Undone(b)' <=> Undone(b))
    BY <1>0, <1>c, <1>1, <1>2, <1>3, <1>9, Zenon DEF Young, Fresh, Undone
  <2>2. UnsharedOf(b)
    BY <1>9, <2>1, Zenon DEF OwnersInv, Unshared
  <2>3. \A a \in Calls : IsLink(a) /\ Of(a) = Of(b) => calls'[a].pc = "idle"
    BY <1>1, <1>3, <2>2, Zenon DEF UnsharedOf
  <2>4. Fresh(b)' \/ calls'[b].pc # "idle" => ~Undone(b)'
    BY <1>1, <1>3, <2>1, <2>2, Zenon DEF UnsharedOf, Fresh
  <2>5. Fresh(b)' \/ calls'[b].pc = "create" => Fresh(b) \/ calls[b].pc = "create"
    BY <1>1, <1>3, Zenon DEF Fresh
  <2> QED BY <1>0, <1>c, <1>1, <1>2, <2>2, <2>3, <2>4, <2>5, ZenonT(40) DEF UnsharedOf
<1>10. Unpromised'
  <2>1. \A d \in Devices : Of(c) \notin node[d].hosted \cup promised[d]
    BY <1>1, <1>4, Zenon DEF OwnersInv, Kept, UnsharedOf
  <2> QED BY <1>0, <1>c, <1>1, <1>2, <1>3, <2>1, ZenonT(40) DEF OwnersInv, Unpromised, Owns
<1>11. Kept'
  BY <1>1, <1>2 DEF OwnersInv, Kept, Halves, Up
<1>12. Halves'
  BY <1>1, <1>2 DEF OwnersInv, Halves, Recoverable, Up
<1>13. HalvesOwned'
  <2>1. calls'[c].pc \in Guarded
    BY <1>3, Zenon DEF Guarded
  <2>2. \A b \in Calls : calls[b].pc \in Guarded => calls'[b].pc \in Guarded
    BY <1>3, <2>1, Zenon
  <2> QED BY <1>0, <1>c, <1>2, <2>1, <2>2 DEF OwnersInv, HalvesOwned, e
<1>14. Unshared'
  BY <1>0, <1>c, <1>9, Zenon DEF Unshared
<1> QED BY <1>0, <1>c, <1>5, <1>6, <1>7, <1>8, <1>10, <1>11, <1>12, <1>13, <1>14, Zenon DEF OwnersInv

\* A link begins: its identity is neither hosted here nor reserved, and the
\* secret it was handed says that the identity is shared.
LEMMA LinkBeginsOwners ==
    ASSUME Base, OwnersInv, NEW c \in Calls, NEW s \in Secrets, LinkBegins(c, s) PROVE OwnersInv'
<1> DEFINE e == At(c)
<1>0. case \in DOMAIN Cases /\ UNCHANGED case
  BY Zenon DEF Base, LinkBegins
<1>c. /\ Calls' = Calls /\ e \in Devices
      /\ \A z : At(z)' = At(z) /\ Of(z)' = Of(z) /\ IsLink(z)' = IsLink(z)
      /\ \A z \in Calls : At(z) \in Devices /\ Of(z) \in Identities
  BY <1>0, CallFacts, CaseFixed, Zenon
<1>1. /\ IsLink(c) /\ calls[c].pc = "idle" /\ Up(e)
      /\ Of(c) \notin node[e].hosted \cup node[e].inflight
      /\ UNCHANGED <<store, disk, record, handed, promised>>
  BY Zenon DEF LinkBegins
<1>2. \A d \in Devices :
         /\ node'[d].power = node[d].power /\ node'[d].hosted = node[d].hosted
         /\ node'[d].tasks = node[d].tasks /\ node'[d].half = node[d].half
         /\ node'[d].writers = node[d].writers
  BY <1>0, <1>c, Zenon DEF LinkBegins, Base, NodesOK, NodeFields
<1>f. /\ \A d \in Devices : d # e => node'[d].inflight = node[d].inflight
      /\ node'[e].inflight = node[e].inflight \cup {Of(c)}
  BY <1>0, <1>c, Zenon DEF LinkBegins, Base, NodesOK, NodeFields
<1>3. /\ \A b \in Calls : b # c => calls'[b] = calls[b]
      /\ calls'[c].pc = "dial" /\ calls'[c].round = calls[c].round + 1
      /\ calls'[c].wrote = "running"
  BY Zenon DEF LinkBegins, IdleCall, Base, CallsOK, CallFields
<1>4. \A b \in Calls : ~IsLink(b) /\ Young(b) => Of(b) # Of(c)
  BY <1>1 DEF LinkBegins, IsLink, Inviter, OwnersInv, Unshared, UnsharedOf
<1> HIDE DEF e
<1>5. CallsHold'
  <2>1. calls[c].round \in Nat
    BY Zenon DEF OwnersInv, CallsHold
  <2>2. calls'[c].round \in Nat /\ calls'[c].round # 0
    BY <1>3, <2>1
  <2> QED BY <1>0, <1>c, <1>1, <1>2, <1>3, <2>2 DEF OwnersInv, CallsHold, Up, e
<1>6. ASSUME NEW b \in Calls PROVE Held(b)'
  BY <1>0, <1>c, <1>1, <1>2, <1>3, Zenon DEF OwnersInv, Held
<1>7. WritersOK' /\ TasksOK'
  BY <1>0, <1>c, <1>2 DEF OwnersInv, WritersOK, TasksOK
<1>8. Reserved'
  BY <1>0, <1>c, <1>1, <1>2, <1>f, <1>3 DEF OwnersInv, Reserved, e
<1>9. ASSUME NEW b \in Calls, ~IsLink(b), Young(b)' PROVE UnsharedOf(b)'
  <2>1. b # c /\ Young(b) /\ (Fresh(b)' <=> Fresh(b)) /\ (Undone(b)' <=> Undone(b))
    BY <1>0, <1>c, <1>1, <1>2, <1>3, <1>9, Zenon DEF Young, Fresh, Undone
  <2>2. UnsharedOf(b)
    BY <1>9, <2>1, Zenon DEF OwnersInv, Unshared
  <2>3. \A a \in Calls : IsLink(a) /\ Of(a) = Of(b) => calls'[a].pc = "idle"
    BY <1>3, <1>4, <1>9, <2>1, <2>2, Zenon DEF UnsharedOf
  <2> QED BY <1>0, <1>c, <1>1, <1>2, <1>3, <2>1, <2>2, <2>3, Zenon DEF UnsharedOf
<1>10. Unpromised'
  <2>1. Of(c) \notin node[e].hosted \cup promised[e]
    BY <1>0, <1>c, <1>1, Zenon DEF OwnersInv, Kept
  <2> QED BY <1>0, <1>c, <1>1, <1>2, <1>3, <2>1, ZenonT(40) DEF OwnersInv, Unpromised, Owns, e
<1>11. Kept'
  BY <1>1, <1>2 DEF OwnersInv, Kept, Up
<1>12. Halves'
  BY <1>1, <1>2 DEF OwnersInv, Halves, Recoverable
<1>13. HalvesOwned'
  <2>1. \A b \in Calls : calls[b].pc \in Guarded => calls'[b].pc \in Guarded
    BY <1>1, <1>3, Zenon DEF Guarded
  <2> QED BY <1>0, <1>c, <1>2, <2>1 DEF OwnersInv, HalvesOwned
<1>14. Unshared'
  BY <1>0, <1>c, <1>9, Zenon DEF Unshared
<1> QED BY <1>0, <1>c, <1>5, <1>6, <1>7, <1>8, <1>10, <1>11, <1>12, <1>13, <1>14, Zenon DEF OwnersInv
=============================================================================
