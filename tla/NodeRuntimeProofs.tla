------------------------- MODULE NodeRuntimeProofs --------------------------
(***************************************************************************)
(* Theorems about the runtime of a node, for any devices, identities,      *)
(* calls, secrets and budgets of faults:                                   *)
(*                                                                         *)
(*   SecretBuysOneTicket      a secret is answered with one ticket;        *)
(*   HalvesNeverOrphaned      roll backs leave nothing and take nothing    *)
(*                            that stands;                                 *)
(*   PromisedAlwaysComesBack  what was answered Ok for is hosted by every  *)
(*                            later start;                                 *)
(*   ConfirmedAlwaysRecorded  a device listed as confirmed elsewhere has   *)
(*                            recorded its hosting.                        *)
(*                                                                         *)
(* Every step of the runtime is a step of Hosting, with what it does to    *)
(* the payloads, or leaves Hosting's state alone; the invariants of        *)
(* HostingProofs carry over.  The fourth theorem needs one more,           *)
(* RecordInv, which is here.                                               *)
(***************************************************************************)
EXTENDS NodeRuntime, HostingProofs

-----------------------------------------------------------------------------
(***************************************************************************)
(* The rest of the steps of Hosting keep OwnersInv.                          *)
(***************************************************************************)


\* A link gives its reservation back.
LEMMA ReleasesOwners ==
    ASSUME Base, OwnersInv, NEW c \in Calls, Releases(c) PROVE OwnersInv'
<1> DEFINE e == At(c)
<1>0. case \in DOMAIN Cases /\ UNCHANGED case
  BY Zenon DEF Base, Releases
<1>c. /\ Calls' = Calls /\ e \in Devices
      /\ \A z : At(z)' = At(z) /\ Of(z)' = Of(z) /\ IsLink(z)' = IsLink(z)
      /\ \A z \in Calls : At(z) \in Devices /\ Of(z) \in Identities
  BY <1>0, CallFacts, CaseFixed, Zenon
<1>1. /\ IsLink(c) /\ calls[c].pc = "release"
      /\ UNCHANGED <<store, disk, record, handed, promised>>
  BY Zenon DEF Releases, Base, CallsOK, LinkOnly
<1>2. \A d \in Devices :
         /\ node'[d].power = node[d].power /\ node'[d].hosted = node[d].hosted
         /\ node'[d].tasks = node[d].tasks /\ node'[d].half = node[d].half
         /\ node'[d].writers = node[d].writers
  BY <1>0, <1>c, Zenon DEF Releases, Base, NodesOK, NodeFields
<1>f. /\ \A d \in Devices : d # e => node'[d].inflight = node[d].inflight
      /\ node'[e].inflight = node[e].inflight \ {Of(c)}
  BY <1>0, <1>c, Zenon DEF Releases, Base, NodesOK, NodeFields
<1>3. /\ \A b \in Calls : b # c => calls'[b] = calls[b]
      /\ calls'[c].pc = "idle" /\ calls'[c].round = calls[c].round
      /\ calls'[c].wrote = calls[c].wrote
  BY Zenon DEF Releases, Goes, Base, CallsOK, CallFields
<1>4. /\ \A b \in Calls : At(b) = e /\ Of(b) = Of(c) /\ calls[b].pc # "idle" => b = c
      /\ \A t \in node[e].tasks : t.identity # Of(c)
  BY <1>1, Alone, Zenon
<1> HIDE DEF e
<1>5. CallsHold'
  BY <1>0, <1>c, <1>1, <1>2, <1>3 DEF OwnersInv, CallsHold, Up
<1>6. ASSUME NEW b \in Calls PROVE Held(b)'
  BY <1>0, <1>c, <1>1, <1>2, <1>3, Zenon DEF OwnersInv, Held
<1>7. WritersOK' /\ TasksOK'
  BY <1>0, <1>c, <1>2 DEF OwnersInv, WritersOK, TasksOK
<1>8. Reserved'
  BY <1>0, <1>c, <1>1, <1>2, <1>f, <1>3, <1>4 DEF OwnersInv, Reserved, e
<1>9. ASSUME NEW b \in Calls, ~IsLink(b), Young(b)' PROVE UnsharedOf(b)'
  <2>1. b # c /\ Young(b) /\ (Fresh(b)' <=> Fresh(b)) /\ (Undone(b)' <=> Undone(b))
    BY <1>0, <1>c, <1>1, <1>2, <1>3, <1>9, Zenon DEF Young, Fresh, Undone
  <2>2. UnsharedOf(b)
    BY <1>9, <2>1, Zenon DEF OwnersInv, Unshared
  <2> QED BY <1>0, <1>c, <1>1, <1>2, <1>3, <2>1, <2>2 DEF UnsharedOf
<1>10. Unpromised'
  BY <1>0, <1>c, <1>1, <1>2, <1>3, Zenon DEF OwnersInv, Unpromised, Owns
<1>11. Kept'
  BY <1>1, <1>2 DEF OwnersInv, Kept, Up
<1>12. Halves'
  BY <1>1, <1>2 DEF OwnersInv, Halves, Recoverable
<1>13. HalvesOwned'
  <2>1. \A b \in Calls : calls[b].pc \in Guarded => calls'[b].pc \in Guarded
    BY <1>1, <1>3, Zenon DEF Guarded
  <2> QED BY <1>0, <1>c, <1>2, <2>1 DEF OwnersInv, HalvesOwned
<1>14. Unshared'
  BY <1>0, <1>c, <1>9, Zenon DEF Unshared
<1> QED BY <1>0, <1>c, <1>5, <1>6, <1>7, <1>8, <1>10, <1>11, <1>12, <1>13, <1>14, Zenon DEF OwnersInv

\* The commit point: what the call brought about is recorded and on disk, and
\* there is nobody else who could undo it.
LEMMA RecordedOwners ==
    ASSUME Base, OwnersInv, NEW c \in Calls, Recorded(c) PROVE OwnersInv'
<1> DEFINE e == At(c)
<1>0. case \in DOMAIN Cases /\ UNCHANGED case
  BY Zenon DEF Base, Recorded
<1>c. /\ Calls' = Calls /\ e \in Devices
      /\ \A z : At(z)' = At(z) /\ Of(z)' = Of(z) /\ IsLink(z)' = IsLink(z)
      /\ \A z \in Calls : At(z) \in Devices /\ Of(z) \in Identities
  BY <1>0, CallFacts, CaseFixed, Zenon
<1>1. /\ calls[c].pc = "record" /\ calls[c].wrote = "ok" /\ calls[c].round # 0 /\ Up(e)
      /\ UNCHANGED <<store, disk, record, handed>>
  BY Zenon DEF Recorded, OwnersInv, CallsHold
<1>2. \A d \in Devices :
         /\ node'[d].power = node[d].power /\ node'[d].inflight = node[d].inflight
         /\ node'[d].tasks = node[d].tasks /\ node'[d].half = node[d].half
         /\ node'[d].writers = node[d].writers
  BY <1>0, <1>c, Zenon DEF Recorded, Admitted, Base, NodesOK, NodeFields
<1>h. /\ \A d \in Devices : d # e => node'[d].hosted = node[d].hosted /\ promised'[d] = promised[d]
      /\ node'[e].hosted = node[e].hosted \cup {Of(c)}
      /\ promised'[e] = promised[e] \cup {Of(c)}
  BY <1>0, <1>c, Zenon DEF Recorded, Admitted, Base, NodesOK, NodeFields, TablesOK
<1>3. /\ \A b \in Calls : b # c => calls'[b] = calls[b]
      /\ calls'[c].round = calls[c].round /\ calls'[c].wrote = calls[c].wrote
      /\ calls'[c].pc \in {"idle", "confirm"} /\ (~IsLink(c) => calls'[c].pc = "idle")
  BY Zenon DEF Recorded, Goes, Base, CallsOK, CallFields
<1>4. /\ \A b \in Calls : At(b) = e /\ Of(b) = Of(c) /\ calls[b].pc # "idle" => b = c
      /\ \A t \in node[e].tasks : t.identity # Of(c)
      /\ \A b \in Calls : ~IsLink(b) /\ Young(b) /\ Of(b) = Of(c) => b = c
  BY <1>1, Alone, Zenon
<1> HIDE DEF e
<1>5. CallsHold'
  BY <1>0, <1>c, <1>1, <1>2, <1>3 DEF OwnersInv, CallsHold, Up
<1>6. ASSUME NEW b \in Calls PROVE Held(b)'
  BY <1>0, <1>c, <1>1, <1>2, <1>3, Zenon DEF OwnersInv, Held
<1>7. WritersOK' /\ TasksOK'
  BY <1>0, <1>c, <1>2 DEF OwnersInv, WritersOK, TasksOK
<1>8. Reserved'
  BY <1>0, <1>c, <1>1, <1>2, <1>3 DEF OwnersInv, Reserved
<1>9. ASSUME NEW b \in Calls, ~IsLink(b), Young(b)' PROVE UnsharedOf(b)'
  <2>1. b # c
    <3>1. ASSUME b = c PROVE FALSE
      <4>1. UnsharedOf(c)
        BY <1>1, <1>9, <3>1, Zenon DEF OwnersInv, Unshared, Young
      <4>2. ~Undone(c)
        BY <1>1, <4>1, Zenon DEF UnsharedOf
      <4> QED BY <1>0, <1>c, <1>1, <1>2, <1>3, <1>9, <3>1, <4>2, Zenon DEF Young, Fresh, Undone
    <3> QED BY <3>1, Zenon
  <2>2. Young(b) /\ (Fresh(b)' <=> Fresh(b)) /\ (Undone(b)' <=> Undone(b))
    BY <1>0, <1>c, <1>2, <1>3, <1>9, <2>1, Zenon DEF Young, Fresh, Undone
  <2>3. UnsharedOf(b) /\ Of(b) # Of(c)
    BY <1>4, <1>9, <2>1, <2>2, Zenon DEF OwnersInv, Unshared
  <2>4. \A d \in Devices : Of(b) \notin node'[d].hosted
    BY <1>h, <2>3, Zenon DEF UnsharedOf
  <2>5. \A a \in Calls : IsLink(a) /\ Of(a) = Of(b) => calls'[a].pc = "idle"
    BY <1>3, <2>3 DEF UnsharedOf
  <2> QED BY <1>0, <1>c, <1>1, <1>2, <1>3, <2>1, <2>2, <2>3, <2>4, <2>5 DEF UnsharedOf
<1>10. Unpromised'
  BY <1>0, <1>c, <1>1, <1>2, <1>h, <1>3, <1>4 DEF OwnersInv, Unpromised, Owns, e
<1>11. Kept'
  <2>1. Of(c) \in record[e] \cap DOMAIN store[e] \cap DOMAIN disk[e] /\ node[e].half[Of(c)] = "armed"
    BY <1>1, Zenon DEF OwnersInv, CallsHold, Held, e
  <2> QED BY <1>1, <1>2, <1>h, <2>1 DEF OwnersInv, Kept, Up
<1>12. Halves'
  BY <1>0, <1>c, <1>1, <1>2, <1>h DEF OwnersInv, Halves, Recoverable
<1>13. HalvesOwned'
  BY <1>0, <1>c, <1>2, <1>h, <1>3 DEF OwnersInv, HalvesOwned, e
<1>14. Unshared'
  BY <1>0, <1>c, <1>9, Zenon DEF Unshared
<1> QED BY <1>0, <1>c, <1>5, <1>6, <1>7, <1>8, <1>10, <1>11, <1>12, <1>13, <1>14, Zenon DEF OwnersInv

\* A writer ends, after its caller or before: what it recorded is what its
\* call is for.
LEMMA WriterEndsOwners ==
    ASSUME Base, OwnersInv, NEW e \in Devices, NEW w \in node[e].writers, WriterEnds(e, w)
    PROVE  OwnersInv'
<1>0. case \in DOMAIN Cases /\ UNCHANGED case /\ w.call \in Calls /\ At(w.call) = e
  BY Zenon DEF Base, WriterEnds, OwnersInv, WritersOK
<1>c. /\ Calls' = Calls
      /\ \A z : At(z)' = At(z) /\ Of(z)' = Of(z) /\ IsLink(z)' = IsLink(z)
      /\ \A z \in Calls : At(z) \in Devices /\ Of(z) \in Identities
  BY <1>0, CallFacts, CaseFixed, Zenon
<1>1. UNCHANGED <<store, disk, handed, promised>>
  BY Zenon DEF WriterEnds
<1>2. \A d \in Devices :
         /\ SameOwners(d) /\ node'[d].half = node[d].half
         /\ node'[d].writers \subseteq node[d].writers
  BY Zenon DEF WriterEnds, SameOwners, Base, NodesOK, NodeFields
<1>3. /\ \A d \in Devices : record'[d] = record[d] \/ (d = e /\ record'[d] = record[d] \cup {Of(w.call)})
      /\ \A b \in Calls : calls'[b].pc = calls[b].pc /\ calls'[b].round = calls[b].round
      /\ \A b \in Calls : calls'[b].wrote = "ok" =>
            calls[b].wrote = "ok" \/ (b = w.call /\ Of(b) \in record'[e])
  <2>1. CASE /\ record' = [record EXCEPT ![e] = Written(@, Of(w.call))]
             /\ calls' = IF calls[w.call].round = w.round
                         THEN [calls EXCEPT ![w.call].wrote = "ok"] ELSE calls
    BY <1>0, <1>c, <2>1, Zenon DEF Written, Base, CallsOK, CallFields, TablesOK
  <2>2. CASE /\ UNCHANGED record
             /\ calls' = IF calls[w.call].round = w.round
                         THEN [calls EXCEPT ![w.call].wrote = "failed"] ELSE calls
    BY <1>0, <1>c, <2>2, Zenon DEF Base, CallsOK, CallFields
  <2> QED BY <2>1, <2>2, Zenon DEF WriterEnds
<1> USE DEF SameOwners
<1>5. CallsHold'
  BY <1>0, <1>c, <1>2, <1>3 DEF OwnersInv, CallsHold, Up
<1>6. ASSUME NEW b \in Calls PROVE Held(b)'
  BY <1>0, <1>c, <1>1, <1>2, <1>3, Zenon DEF OwnersInv, Held
<1>7. WritersOK' /\ TasksOK'
  BY <1>0, <1>c, <1>2 DEF OwnersInv, WritersOK, TasksOK
<1>8. Reserved'
  BY <1>0, <1>c, <1>2, <1>3 DEF OwnersInv, Reserved
<1>9. ASSUME NEW b \in Calls, ~IsLink(b), Young(b)' PROVE UnsharedOf(b)'
  <2>1. Young(b) /\ (Fresh(b)' <=> Fresh(b)) /\ (Undone(b)' <=> Undone(b))
    BY <1>0, <1>c, <1>2, <1>3, <1>9, Zenon DEF Young, Fresh, Undone
  <2>2. UnsharedOf(b)
    BY <1>9, <2>1, Zenon DEF OwnersInv, Unshared
  <2>3. Of(w.call) = Of(b) => e = At(b) /\ ~(Fresh(b) \/ calls[b].pc = "create")
    BY <1>0, <1>c, <2>2, Zenon DEF UnsharedOf
  <2>4. \A d \in Devices : d # At(b) => Of(b) \notin record'[d]
    BY <1>3, <2>2, <2>3 DEF UnsharedOf
  <2>5. Fresh(b)' \/ calls'[b].pc = "create" =>
          \A d \in Devices : /\ Of(b) \notin record'[d]
                             /\ \A x \in node'[d].writers : Of(x.call) # Of(b)
    BY <1>2, <1>3, <2>1, <2>2, <2>3 DEF UnsharedOf
  <2> QED BY <1>0, <1>c, <1>1, <1>2, <1>3, <2>1, <2>2, <2>4, <2>5 DEF UnsharedOf
<1>10. Unpromised'
  BY <1>0, <1>c, <1>1, <1>2, <1>3 DEF OwnersInv, Unpromised, Owns
<1>11. Kept'
  BY <1>1, <1>2, <1>3 DEF OwnersInv, Kept, Up
<1>12. Halves'
  BY <1>0, <1>c, <1>1, <1>2, <1>3 DEF OwnersInv, Halves, Recoverable
<1>13. HalvesOwned'
  BY <1>0, <1>c, <1>2, <1>3 DEF OwnersInv, HalvesOwned
<1>14. Unshared'
  BY <1>0, <1>c, <1>9, Zenon DEF Unshared
<1> QED BY <1>0, <1>c, <1>5, <1>6, <1>7, <1>8, <1>10, <1>11, <1>12, <1>13, <1>14, Zenon DEF OwnersInv

\* A call undoes what it brought up, which nobody else has.
LEMMA RollsBackOwners ==
    ASSUME Base, OwnersInv, NEW c \in Calls, RollsBack(c) PROVE OwnersInv'
<1> DEFINE e == At(c)
<1>0. case \in DOMAIN Cases /\ UNCHANGED case
  BY Zenon DEF Base, RollsBack
<1>c. /\ Calls' = Calls /\ e \in Devices
      /\ \A z : At(z)' = At(z) /\ Of(z)' = Of(z) /\ IsLink(z)' = IsLink(z)
      /\ \A z \in Calls : At(z) \in Devices /\ Of(z) \in Identities
  BY <1>0, CallFacts, CaseFixed, Zenon
<1>1. /\ calls[c].pc = "undo" /\ calls[c].round # 0 /\ Up(e)
      /\ UNCHANGED <<disk, record, handed, promised>>
  BY Zenon DEF RollsBack, OwnersInv, CallsHold
<1>2. \A d \in Devices : SameOwners(d) /\ node'[d].writers = node[d].writers
  BY <1>0, <1>c, Zenon DEF RollsBack, Unhosted, SameOwners, Base, NodesOK, NodeFields
<1>h. /\ \A d \in Devices : DOMAIN node'[d].half = Identities
      /\ \A d \in Devices, i \in Identities : d # e \/ i # Of(c) => node'[d].half[i] = node[d].half[i]
      /\ node'[e].half[Of(c)] = "none"
  BY <1>0, <1>c DEF RollsBack, Unhosted, Base, NodesOK, NodeFields, OwnersInv, Halves
<1>s. \A d \in Devices, i \in Identities :
         i \in DOMAIN store[d] /\ (d # e \/ i # Of(c)) => i \in DOMAIN (store'[d])
  BY <1>0, <1>c, Zenon DEF RollsBack, Forgotten, Forgetting, Base, TablesOK
<1>3. /\ \A b \in Calls : b # c => calls'[b] = calls[b]
      /\ calls'[c].round = calls[c].round /\ calls'[c].wrote = calls[c].wrote
      /\ calls'[c].pc \in {"idle", "release"} /\ (~IsLink(c) => calls'[c].pc = "idle")
  BY Zenon DEF RollsBack, Goes, Base, CallsOK, CallFields
<1>4. /\ \A b \in Calls : At(b) = e /\ Of(b) = Of(c) /\ calls[b].pc # "idle" => b = c
      /\ \A t \in node[e].tasks : t.identity # Of(c)
      /\ \A b \in Calls : ~IsLink(b) /\ Young(b) /\ Of(b) = Of(c) => b = c
  BY <1>1, Alone, Zenon
<1>p. Of(c) \notin node[e].hosted \cup promised[e]
  BY <1>1, Zenon DEF OwnersInv, Unpromised, Owns
<1> HIDE DEF e
<1> USE DEF SameOwners
<1>5. CallsHold'
  BY <1>0, <1>c, <1>1, <1>2, <1>3 DEF OwnersInv, CallsHold, Up
<1>6. ASSUME NEW b \in Calls PROVE Held(b)'
  <2>1. CASE calls'[b].pc \in {"idle", "release"}
    BY <2>1, <1>0, Zenon DEF Held
  <2>2. CASE calls'[b].pc \notin {"idle", "release"}
    <3>1. b # c /\ (At(b) # e \/ Of(b) # Of(c))
      BY <1>3, <1>4, <2>2, Zenon
    <3> QED BY <1>0, <1>c, <1>1, <1>h, <1>s, <1>3, <3>1, Zenon DEF OwnersInv, Held
  <2> QED BY <2>1, <2>2, Zenon
<1>7. WritersOK' /\ TasksOK'
  BY <1>0, <1>c, <1>2 DEF OwnersInv, WritersOK, TasksOK
<1>8. Reserved'
  BY <1>0, <1>c, <1>1, <1>2, <1>3 DEF OwnersInv, Reserved
<1>9. ASSUME NEW b \in Calls, ~IsLink(b), Young(b)' PROVE UnsharedOf(b)'
  <2>1. b # c
    <3>1. ASSUME b = c PROVE FALSE
      <4>1. UnsharedOf(c)
        BY <1>1, <1>9, <3>1, Zenon DEF OwnersInv, Unshared, Young
      <4>2. ~Undone(c)
        BY <1>1, <4>1, Zenon DEF UnsharedOf
      <4> QED BY <1>0, <1>c, <1>1, <1>2, <1>3, <1>9, <3>1, <4>2, Zenon DEF Young, Fresh, Undone
    <3> QED BY <3>1, Zenon
  <2>2. Young(b) /\ (Fresh(b)' <=> Fresh(b)) /\ (Undone(b)' <=> Undone(b))
    BY <1>0, <1>c, <1>2, <1>3, <1>9, <2>1, Zenon DEF Young, Fresh, Undone
  <2>3. UnsharedOf(b) /\ Of(b) # Of(c)
    BY <1>4, <1>9, <2>1, <2>2, Zenon DEF OwnersInv, Unshared
  <2>5. \A a \in Calls : IsLink(a) /\ Of(a) = Of(b) => calls'[a].pc = "idle"
    BY <1>3, <2>3 DEF UnsharedOf
  <2> QED BY <1>0, <1>c, <1>1, <1>2, <1>3, <2>1, <2>2, <2>3, <2>5, ZenonT(40) DEF UnsharedOf
<1>10. Unpromised'
  BY <1>0, <1>c, <1>1, <1>2, <1>3, Zenon DEF OwnersInv, Unpromised, Owns
<1>11. Kept'
  BY <1>1, <1>2, <1>h, <1>s, <1>p DEF OwnersInv, Kept, Halves, Up
<1>12. Halves'
  BY <1>0, <1>c, <1>1, <1>2, <1>h, <1>s DEF OwnersInv, Halves, Recoverable, Up
<1>13. HalvesOwned'
  BY <1>0, <1>c, <1>2, <1>h, <1>3 DEF OwnersInv, HalvesOwned, e
<1>14. Unshared'
  BY <1>0, <1>c, <1>9, Zenon DEF Unshared
<1> QED BY <1>0, <1>c, <1>5, <1>6, <1>7, <1>8, <1>10, <1>11, <1>12, <1>13, <1>14, Zenon DEF OwnersInv

\* A call is dropped: what it brought up goes to the task its guard spawns.
LEMMA CancelsOwners ==
    ASSUME Base, OwnersInv, NEW c \in Calls, Cancels(c) PROVE OwnersInv'
<1> DEFINE e == At(c)
<1>0. case \in DOMAIN Cases /\ UNCHANGED case
  BY Zenon DEF Base, Cancels
<1>c. /\ Calls' = Calls /\ e \in Devices
      /\ \A z : At(z)' = At(z) /\ Of(z)' = Of(z) /\ IsLink(z)' = IsLink(z)
      /\ \A z \in Calls : At(z) \in Devices /\ Of(z) \in Identities
  BY <1>0, CallFacts, CaseFixed, Zenon
<1>1. /\ calls[c].pc # "idle" /\ calls[c].round # 0 /\ Up(e)
      /\ UNCHANGED <<store, disk, record, handed, promised>>
  BY <1>0, <1>c, CasesAssumption, Zenon DEF Cancels, OwnersInv, CallsHold, Setting
<1>2. \A d \in Devices :
         /\ node'[d].power = node[d].power /\ node'[d].hosted = node[d].hosted
         /\ node'[d].inflight = node[d].inflight /\ node'[d].half = node[d].half
         /\ node'[d].writers = node[d].writers
  BY <1>0, <1>c, Zenon DEF Cancels, Base, NodesOK, NodeFields
<1>t. /\ \A d \in Devices : d # e => node'[d].tasks = node[d].tasks
      /\ node'[e].tasks = node[e].tasks \cup DropTasks(c)
  BY <1>0, <1>c, Zenon DEF Cancels, Base, NodesOK, NodeFields
<1>u. /\ \A t \in DropTasks(c) : /\ DOMAIN t = {"identity", "pms", "link", "step"}
                                 /\ t.identity = Of(c) /\ (t.link <=> IsLink(c))
                                 /\ t.step = "undo" => calls[c].pc \in Guarded
      /\ calls[c].pc \in Guarded => \E t \in DropTasks(c) : t.identity = Of(c) /\ t.step = "undo"
      /\ \A t, u \in DropTasks(c) : t = u
  <2>1. \A k : /\ DOMAIN Task(c, k) = {"identity", "pms", "link", "step"}
              /\ Task(c, k).identity = Of(c) /\ Task(c, k).step = k
    BY Zenon DEF Task
  <2>2. \A k : Task(c, k).link = IsLink(c)
    BY Zenon DEF Task
  <2>3. CASE calls[c].pc \in Guarded
    <3>1. DropTasks(c) = {Task(c, "undo")}
      BY <2>3, Zenon DEF DropTasks
    <3> QED BY <2>1, <2>2, <2>3, <3>1, Zenon
  <2>4. CASE calls[c].pc \notin Guarded
    <3>1. DropTasks(c) \subseteq {Task(c, "release")}
      BY <2>4, Zenon DEF DropTasks
    <3> QED BY <2>1, <2>2, <2>4, <3>1, Zenon
  <2> QED BY <2>3, <2>4, Zenon
<1>3. /\ \A b \in Calls : b # c => calls'[b] = calls[b]
      /\ calls'[c].round = calls[c].round /\ calls'[c].wrote = calls[c].wrote
      /\ calls'[c].pc = "idle"
  BY Zenon DEF Cancels, Goes, Base, CallsOK, CallFields
<1>4. /\ \A b \in Calls : At(b) = e /\ Of(b) = Of(c) /\ calls[b].pc # "idle" => b = c
      /\ \A t \in node[e].tasks : t.identity # Of(c)
      /\ \A b \in Calls : ~IsLink(b) /\ Young(b) /\ Of(b) = Of(c) => b = c
  BY <1>1, Alone, Zenon
<1> HIDE DEF e
<1>5. CallsHold'
  BY <1>0, <1>c, <1>1, <1>2, <1>3 DEF OwnersInv, CallsHold, Up
<1>6. ASSUME NEW b \in Calls PROVE Held(b)'
  BY <1>0, <1>c, <1>1, <1>2, <1>3, Zenon DEF OwnersInv, Held
<1>7. WritersOK' /\ TasksOK'
  <2>1. WritersOK'
    BY <1>0, <1>c, <1>2, Zenon DEF OwnersInv, WritersOK
  <2>2. \A d \in Devices : node'[d].power \in {"off", "starting"} => node'[d].tasks = {}
    BY <1>0, <1>1, <1>2, <1>t, <1>u DEF OwnersInv, TasksOK, Up, e
  <2>3. \A d \in Devices : \A t \in node'[d].tasks :
           /\ DOMAIN t = {"identity", "pms", "link", "step"}
           /\ ~t.link => \E a \in Calls : ~IsLink(a) /\ At(a) = d /\ Of(a) = t.identity
    BY <1>0, <1>c, <1>t, <1>u DEF OwnersInv, TasksOK, e
  <2>4. TasksOK'
    BY <1>c, <2>2, <2>3, ZenonT(40) DEF TasksOK
  <2> QED BY <2>1, <2>4, Zenon
<1>8. Reserved'
  <2>1. ASSUME NEW b \in Calls, IsLink(b), calls'[b].pc # "idle"
        PROVE  /\ Of(b) \in node'[At(b)].inflight
               /\ \A a \in Calls :
                     IsLink(a) /\ calls'[a].pc # "idle" /\ At(a) = At(b) /\ Of(a) = Of(b) => a = b
               /\ \A t \in node'[At(b)].tasks : t.link => t.identity # Of(b)
    <3>1. b # c /\ calls[b].pc # "idle" /\ (At(b) # e \/ Of(b) # Of(c))
      BY <1>3, <1>4, <2>1, Zenon
    <3>2. /\ Of(b) \in node[At(b)].inflight
          /\ \A a \in Calls :
                IsLink(a) /\ calls[a].pc # "idle" /\ At(a) = At(b) /\ Of(a) = Of(b) => a = b
          /\ \A t \in node[At(b)].tasks : t.link => t.identity # Of(b)
      BY <2>1, <3>1, Zenon DEF OwnersInv, Reserved
    <3>3. Of(b) \in node'[At(b)].inflight
      BY <1>c, <1>2, <3>2, Zenon
    <3>4. \A t \in node'[At(b)].tasks : t.link => t.identity # Of(b)
      BY <1>c, <1>t, <1>u, <3>1, <3>2, Zenon
    <3> QED BY <1>3, <3>2, <3>3, <3>4, Zenon
  <2>2. ASSUME NEW d \in Devices, NEW t \in node'[d].tasks, t.link
        PROVE  t.identity \in node'[d].inflight
    <3>1. CASE t \in node[d].tasks
      BY <1>2, <2>2, <3>1, Zenon DEF OwnersInv, Reserved
    <3>2. CASE t \notin node[d].tasks
      BY <1>0, <1>c, <1>1, <1>2, <1>t, <1>u, <2>2, <3>2 DEF OwnersInv, Reserved, e
    <3> QED BY <3>1, <3>2, Zenon
  <2>3. ASSUME NEW d \in Devices, NEW t \in node'[d].tasks, NEW u \in node'[d].tasks,
               t.link, u.link, u.identity = t.identity
        PROVE  u = t
    BY <1>t, <1>u, <1>4, <2>3, Zenon DEF OwnersInv, Reserved
  <2> QED BY <1>0, <1>c, <2>1, <2>2, <2>3, Zenon DEF Reserved
<1>9. ASSUME NEW b \in Calls, ~IsLink(b), Young(b)' PROVE UnsharedOf(b)'
  <2>1. Young(b) /\ (Fresh(b)' => Fresh(b))
    BY <1>0, <1>c, <1>1, <1>t, <1>u, <1>3, <1>9, CallFacts DEF Young, Fresh, Undone
  <2>2. UnsharedOf(b) /\ (Of(b) = Of(c) => b = c)
    BY <1>4, <1>9, <2>1, Zenon DEF OwnersInv, Unshared
  <2>3. b # c => (Undone(b)' <=> Undone(b))
    BY <1>0, <1>c, <1>t, <1>u, <2>2, Zenon DEF Undone
  <2>4. b = c => ~Fresh(b)' /\ calls'[b].pc = "idle"
    BY <1>1, <1>3, Zenon DEF Fresh
  <2>5. \A d \in Devices : \A t \in node'[d].tasks : t.identity = Of(b) => ~t.link /\ d = At(b)
    BY <1>t, <1>u, <1>9, <2>2, Zenon DEF UnsharedOf, e
  <2>6. \A a \in Calls : IsLink(a) /\ Of(a) = Of(b) => calls'[a].pc = "idle"
    BY <1>3, <2>2, Zenon DEF UnsharedOf
  <2>7. Fresh(b)' \/ calls'[b].pc # "idle" => ~Undone(b)'
    BY <1>3, <2>1, <2>2, <2>3, <2>4, Zenon DEF UnsharedOf
  <2>8. Fresh(b)' \/ calls'[b].pc = "create" => Fresh(b) \/ calls[b].pc = "create"
    BY <1>3, <2>1, <2>4, Zenon
  <2> QED BY <1>0, <1>c, <1>1, <1>2, <2>2, <2>5, <2>6, <2>7, <2>8, Zenon DEF UnsharedOf
<1>10. Unpromised'
  <2>1. calls[c].pc \in Guarded => Of(c) \notin node[e].hosted \cup promised[e]
    BY Zenon DEF OwnersInv, Unpromised, Owns, Guarded, e
  <2>2. \A b \in Calls : Owns(b)' => Of(b) \notin node'[At(b)].hosted \cup promised'[At(b)]
    BY <1>0, <1>c, <1>1, <1>2, <1>3 DEF OwnersInv, Unpromised, Owns
  <2>3. \A d \in Devices : \A t \in node'[d].tasks : t.step = "undo" =>
           t.identity \notin node'[d].hosted \cup promised'[d]
    BY <1>0, <1>1, <1>2, <1>t, <1>u, <2>1 DEF OwnersInv, Unpromised
  <2> QED BY <1>c, <2>2, <2>3, ZenonT(40) DEF Unpromised
<1>11. Kept'
  BY <1>1, <1>2 DEF OwnersInv, Kept, Up
<1>12. Halves'
  BY <1>1, <1>2 DEF OwnersInv, Halves, Recoverable
<1>13. HalvesOwned'
  <2>1. ASSUME NEW d \in Devices, NEW i \in Identities, node'[d].half[i] # "none",
               i \notin node'[d].hosted, node'[d].power # "starting"
        PROVE  \/ \E b \in Calls : At(b) = d /\ Of(b) = i /\ calls'[b].pc \in Guarded
               \/ \E t \in node'[d].tasks : t.identity = i /\ t.step = "undo"
    <3>1. CASE \E t \in node[d].tasks : t.identity = i /\ t.step = "undo"
      BY <1>t, <3>1, Zenon
    <3>2. CASE \E b \in Calls : At(b) = d /\ Of(b) = i /\ calls[b].pc \in Guarded
      <4>1. PICK b \in Calls : At(b) = d /\ Of(b) = i /\ calls[b].pc \in Guarded
        BY <3>2, Zenon
      <4>2. CASE b = c
        BY <1>t, <1>u, <4>1, <4>2, Zenon DEF e
      <4>3. CASE b # c
        BY <1>3, <4>1, <4>3, Zenon
      <4> QED BY <4>2, <4>3, Zenon
    <3> QED BY <1>2, <2>1, <3>1, <3>2 DEF OwnersInv, HalvesOwned
  <2> QED BY <1>0, <1>c, <2>1, Zenon DEF HalvesOwned
<1>14. Unshared'
  BY <1>0, <1>c, <1>9, Zenon DEF Unshared
<1> QED BY <1>0, <1>c, <1>5, <1>6, <1>7, <1>8, <1>10, <1>11, <1>12, <1>13, <1>14, Zenon DEF OwnersInv

\* What a task undoes belongs to no call of the device.
LEMMA TaskAlone ==
    ASSUME Base, OwnersInv, NEW e \in Devices, NEW t \in node[e].tasks
    PROVE  /\ \A c \in Calls : At(c) = e /\ Of(c) = t.identity => calls[c].pc = "idle"
           /\ \A u \in node[e].tasks : u.link /\ u.identity = t.identity => u = t
<1>1. \A c \in Calls : At(c) = e /\ Of(c) = t.identity => calls[c].pc = "idle"
  BY Alone, Zenon
<1>2. ASSUME NEW u \in node[e].tasks, u.link, u.identity = t.identity PROVE u = t
  <2>1. CASE t.link
    BY <1>2, <2>1, Zenon DEF OwnersInv, Reserved
  <2>2. CASE ~t.link
    <3>1. PICK c \in Calls : ~IsLink(c) /\ At(c) = e /\ Of(c) = t.identity
      BY <2>2, Zenon DEF OwnersInv, TasksOK
    <3>2. UnsharedOf(c)
      BY <2>2, <3>1, Zenon DEF OwnersInv, Unshared, Young, Undone
    <3> QED BY <1>2, <3>1, <3>2, Zenon DEF UnsharedOf
  <2> QED BY <2>1, <2>2, Zenon
<1> QED BY <1>1, <1>2, Zenon

\* A detached undo, which keeps the reservation of a link to its end.
LEMMA TaskUndoesOwners ==
    ASSUME Base, OwnersInv, NEW e \in Devices, NEW t \in node[e].tasks, TaskUndoes(e, t)
    PROVE  OwnersInv'
<1> DEFINE r == [t EXCEPT !.step = "release"]
<1>0. case \in DOMAIN Cases /\ UNCHANGED case /\ t.step = "undo" /\ node[e].power \notin {"off", "starting"}
  BY Zenon DEF Base, TaskUndoes, OwnersInv, TasksOK
<1>c. /\ Calls' = Calls
      /\ \A z : At(z)' = At(z) /\ Of(z)' = Of(z) /\ IsLink(z)' = IsLink(z)
      /\ \A z \in Calls : At(z) \in Devices /\ Of(z) \in Identities
  BY <1>0, CallFacts, CaseFixed, Zenon
<1>1. UNCHANGED <<disk, record, calls, handed, promised>>
  BY Zenon DEF TaskUndoes
<1>2. \A d \in Devices :
         /\ node'[d].power = node[d].power /\ node'[d].hosted = node[d].hosted
         /\ node'[d].inflight = node[d].inflight /\ node'[d].writers = node[d].writers
  BY Zenon DEF TaskUndoes, Unhosted, Base, NodesOK, NodeFields
<1>h. /\ \A d \in Devices : DOMAIN node'[d].half = Identities
      /\ \A d \in Devices, i \in Identities :
            d # e \/ i # t.identity => node'[d].half[i] = node[d].half[i]
      /\ t.identity \in Identities => node'[e].half[t.identity] = "none"
  BY DEF TaskUndoes, Unhosted, Base, NodesOK, NodeFields, OwnersInv, Halves
<1>s. \A d \in Devices, i \in Identities :
         i \in DOMAIN store[d] /\ (d # e \/ i # t.identity) => i \in DOMAIN (store'[d])
  BY Zenon DEF TaskUndoes, Forgotten, Forgetting, Base, TablesOK
<1>t. /\ \A d \in Devices : d # e => node'[d].tasks = node[d].tasks
      /\ \A u \in node'[e].tasks : (u \in node[e].tasks /\ u # t) \/ (u = r /\ t.link)
      /\ \A u \in node[e].tasks : u # t => u \in node'[e].tasks
  <2> DEFINE next == IF t.link THEN {r} ELSE {}
  <2>1. node' = [node EXCEPT ![e] = [Unhosted(@, t.identity) EXCEPT !.tasks =
                                         (node[e].tasks \ {t}) \cup next]]
    BY Zenon DEF TaskUndoes
  <2> HIDE DEF next, r
  <2>2. /\ \A d \in Devices : d # e => node'[d].tasks = node[d].tasks
        /\ node'[e].tasks = (node[e].tasks \ {t}) \cup next
    BY <2>1, Zenon DEF Unhosted, Base, NodesOK, NodeFields
  <2> QED BY <2>2, Zenon DEF next
<1>r. /\ DOMAIN r = {"identity", "pms", "link", "step"}
      /\ r.identity = t.identity /\ r.link = t.link /\ r.step = "release"
  BY Zenon DEF OwnersInv, TasksOK
<1>4. /\ \A c \in Calls : At(c) = e /\ Of(c) = t.identity => calls[c].pc = "idle"
      /\ \A u \in node[e].tasks : u.link /\ u.identity = t.identity => u = t
  BY TaskAlone, Zenon
<1>p. t.identity \notin node[e].hosted \cup promised[e]
  BY <1>0, <1>c, Zenon DEF OwnersInv, Unpromised
<1> HIDE DEF r
<1>5. CallsHold'
  BY <1>0, <1>c, <1>1, <1>2, Zenon DEF OwnersInv, CallsHold, Up
<1>6. ASSUME NEW b \in Calls PROVE Held(b)'
  <2>1. CASE calls[b].pc = "idle"
    BY <1>0, <1>c, <1>1, <2>1, Zenon DEF Held
  <2>2. CASE calls[b].pc # "idle"
    <3>1. At(b) # e \/ Of(b) # t.identity
      BY <1>4, <2>2, Zenon
    <3> QED BY <1>0, <1>c, <1>1, <1>h, <1>s, <3>1, Zenon DEF OwnersInv, Held
  <2> QED BY <2>1, <2>2, Zenon
<1>7. WritersOK' /\ TasksOK'
  <2>1. WritersOK'
    BY <1>0, <1>c, <1>2, Zenon DEF OwnersInv, WritersOK
  <2>2. TasksOK'
    BY <1>0, <1>c, <1>2, <1>t, <1>r DEF OwnersInv, TasksOK
  <2> QED BY <2>1, <2>2, Zenon
<1>8. Reserved'
  <2>1. ASSUME NEW b \in Calls, IsLink(b), calls[b].pc # "idle"
        PROVE  /\ Of(b) \in node'[At(b)].inflight
               /\ \A a \in Calls :
                     IsLink(a) /\ calls[a].pc # "idle" /\ At(a) = At(b) /\ Of(a) = Of(b) => a = b
               /\ \A u \in node'[At(b)].tasks : u.link => u.identity # Of(b)
    <3>1. /\ Of(b) \in node[At(b)].inflight
          /\ \A a \in Calls :
                IsLink(a) /\ calls[a].pc # "idle" /\ At(a) = At(b) /\ Of(a) = Of(b) => a = b
          /\ \A u \in node[At(b)].tasks : u.link => u.identity # Of(b)
      BY <2>1, Zenon DEF OwnersInv, Reserved
    <3>2. At(b) # e \/ Of(b) # t.identity
      BY <1>4, <2>1, Zenon
    <3>3. Of(b) \in node'[At(b)].inflight
      BY <1>c, <1>2, <3>1, Zenon
    <3>4. \A u \in node'[At(b)].tasks : u.link => u.identity # Of(b)
      BY <1>c, <1>t, <1>r, <3>1, <3>2, Zenon
    <3> QED BY <3>1, <3>3, <3>4, Zenon
  <2>2. ASSUME NEW d \in Devices, NEW u \in node'[d].tasks, u.link
        PROVE  u.identity \in node'[d].inflight
    <3>1. \A v \in node[d].tasks : v.link => v.identity \in node[d].inflight
      BY Zenon DEF OwnersInv, Reserved
    <3>2. CASE u \in node[d].tasks
      BY <1>2, <2>2, <3>1, <3>2, Zenon
    <3>3. CASE u \notin node[d].tasks
      <4>1. d = e /\ u = r /\ t.link
        BY <1>t, <2>2, <3>3, Zenon
      <4> QED BY <1>2, <1>r, <3>1, <4>1, Zenon
    <3> QED BY <3>2, <3>3, Zenon
  <2>3. ASSUME NEW d \in Devices, NEW u \in node'[d].tasks, NEW v \in node'[d].tasks,
               u.link, v.link, v.identity = u.identity
        PROVE  v = u
    BY <1>t, <1>r, <1>4, <2>3 DEF OwnersInv, Reserved
  <2> QED BY <1>0, <1>c, <1>1, <2>1, <2>2, <2>3, Zenon DEF Reserved
<1>9. ASSUME NEW b \in Calls, ~IsLink(b), Young(b)' PROVE UnsharedOf(b)'
  <2>1. Young(b) /\ (Fresh(b)' <=> Fresh(b)) /\ (Undone(b)' => Undone(b))
    BY <1>0, <1>c, <1>1, <1>t, <1>r, <1>9, Zenon DEF Young, Fresh, Undone
  <2>2. UnsharedOf(b)
    BY <1>9, <2>1, Zenon DEF OwnersInv, Unshared
  <2>3. \A d \in Devices : \A u \in node'[d].tasks : u.identity = Of(b) => ~u.link /\ d = At(b)
    BY <1>t, <1>r, <2>2 DEF UnsharedOf
  <2> QED BY <1>0, <1>c, <1>1, <1>2, <2>1, <2>2, <2>3, Zenon DEF UnsharedOf
<1>10. Unpromised'
  BY <1>0, <1>c, <1>1, <1>2, <1>t, <1>r, Zenon DEF OwnersInv, Unpromised, Owns
<1>11. Kept'
  BY <1>1, <1>2, <1>h, <1>s, <1>p DEF OwnersInv, Kept, Halves, Up
<1>12. Halves'
  BY <1>0, <1>c, <1>1, <1>2, <1>h, <1>s DEF OwnersInv, Halves, Recoverable
<1>13. HalvesOwned'
  <2>1. ASSUME NEW d \in Devices, NEW i \in Identities, node'[d].half[i] # "none",
               i \notin node'[d].hosted, node'[d].power # "starting"
        PROVE  \/ \E b \in Calls : At(b) = d /\ Of(b) = i /\ calls[b].pc \in Guarded
               \/ \E u \in node'[d].tasks : u.identity = i /\ u.step = "undo"
    <3>1. (d # e \/ i # t.identity) /\ node[d].half[i] # "none"
      BY <1>h, <2>1, Zenon
    <3>2. CASE \E u \in node[d].tasks : u.identity = i /\ u.step = "undo"
      BY <1>t, <3>1, <3>2, Zenon
    <3> QED BY <1>2, <2>1, <3>1, <3>2, Zenon DEF OwnersInv, HalvesOwned
  <2> QED BY <1>0, <1>c, <1>1, <2>1, Zenon DEF HalvesOwned
<1>14. Unshared'
  BY <1>0, <1>c, <1>9, Zenon DEF Unshared
<1> QED BY <1>0, <1>c, <1>5, <1>6, <1>7, <1>8, <1>10, <1>11, <1>12, <1>13, <1>14, Zenon DEF OwnersInv

\* A detached release.
LEMMA TaskReleasesOwners ==
    ASSUME Base, OwnersInv, NEW e \in Devices, NEW t \in node[e].tasks, TaskReleases(e, t)
    PROVE  OwnersInv'
<1>0. case \in DOMAIN Cases /\ UNCHANGED case /\ t.step = "release"
  BY Zenon DEF Base, TaskReleases
<1>c. /\ Calls' = Calls
      /\ \A z : At(z)' = At(z) /\ Of(z)' = Of(z) /\ IsLink(z)' = IsLink(z)
      /\ \A z \in Calls : At(z) \in Devices /\ Of(z) \in Identities
  BY <1>0, CallFacts, CaseFixed, Zenon
<1>1. UNCHANGED <<store, disk, record, calls, handed, promised>>
  BY Zenon DEF TaskReleases
<1>2. \A d \in Devices :
         /\ node'[d].power = node[d].power /\ node'[d].hosted = node[d].hosted
         /\ node'[d].half = node[d].half /\ node'[d].writers = node[d].writers
  BY Zenon DEF TaskReleases, Base, NodesOK, NodeFields
<1>t. /\ \A d \in Devices : d # e =>
            node'[d].tasks = node[d].tasks /\ node'[d].inflight = node[d].inflight
      /\ node'[e].tasks = node[e].tasks \ {t}
      /\ node'[e].inflight = node[e].inflight \ {t.identity}
  BY Zenon DEF TaskReleases, Base, NodesOK, NodeFields
<1>4. /\ \A c \in Calls : At(c) = e /\ Of(c) = t.identity => calls[c].pc = "idle"
      /\ \A u \in node[e].tasks : u.link /\ u.identity = t.identity => u = t
  BY TaskAlone, Zenon
<1>5. CallsHold'
  BY <1>0, <1>c, <1>1, <1>2, Zenon DEF OwnersInv, CallsHold, Up
<1>6. ASSUME NEW b \in Calls PROVE Held(b)'
  BY <1>0, <1>c, <1>1, <1>2, Zenon DEF OwnersInv, Held
<1>7. WritersOK' /\ TasksOK'
  BY <1>0, <1>c, <1>2, <1>t DEF OwnersInv, WritersOK, TasksOK
<1>8. Reserved'
  <2>1. ASSUME NEW b \in Calls, IsLink(b), calls[b].pc # "idle"
        PROVE  /\ Of(b) \in node'[At(b)].inflight
               /\ \A a \in Calls :
                     IsLink(a) /\ calls[a].pc # "idle" /\ At(a) = At(b) /\ Of(a) = Of(b) => a = b
               /\ \A u \in node'[At(b)].tasks : u.link => u.identity # Of(b)
    BY <1>0, <1>c, <1>t, <1>4, <2>1, Zenon DEF OwnersInv, Reserved
  <2>2. ASSUME NEW d \in Devices, NEW u \in node'[d].tasks, u.link
        PROVE  /\ u.identity \in node'[d].inflight
               /\ \A v \in node'[d].tasks : v.link /\ v.identity = u.identity => v = u
    BY <1>t, <1>4, <2>2, Zenon DEF OwnersInv, Reserved
  <2> QED BY <1>0, <1>c, <1>1, <2>1, <2>2, Zenon DEF Reserved
<1>9. ASSUME NEW b \in Calls, ~IsLink(b), Young(b)' PROVE UnsharedOf(b)'
  <2>1. Young(b) /\ (Fresh(b)' <=> Fresh(b)) /\ (Undone(b)' => Undone(b))
    BY <1>0, <1>c, <1>1, <1>t, <1>9, Zenon DEF Young, Fresh, Undone
  <2>2. UnsharedOf(b)
    BY <1>9, <2>1, Zenon DEF OwnersInv, Unshared
  <2>3. \A d \in Devices : \A u \in node'[d].tasks : u.identity = Of(b) => ~u.link /\ d = At(b)
    BY <1>t, <2>2, Zenon DEF UnsharedOf
  <2> QED BY <1>0, <1>c, <1>1, <1>2, <2>1, <2>2, <2>3, Zenon DEF UnsharedOf
<1>10. Unpromised'
  BY <1>0, <1>c, <1>1, <1>2, <1>t, Zenon DEF OwnersInv, Unpromised, Owns
<1>11. Kept'
  BY <1>1, <1>2, ZenonT(40) DEF OwnersInv, Kept, Up
<1>12. Halves'
  BY <1>1, <1>2 DEF OwnersInv, Halves, Recoverable
<1>13. HalvesOwned'
  BY <1>0, <1>c, <1>1, <1>2, <1>t DEF OwnersInv, HalvesOwned
<1>14. Unshared'
  BY <1>0, <1>c, <1>9, Zenon DEF Unshared
<1> QED BY <1>0, <1>c, <1>5, <1>6, <1>7, <1>8, <1>10, <1>11, <1>12, <1>13, <1>14, Zenon DEF OwnersInv

\* An invite is minted for an identity that is hosted here.
LEMMA MintOwners ==
    ASSUME Base, OwnersInv, NEW e \in Devices, NEW i \in Identities, MintInvite(e, i)
    PROVE  OwnersInv'
<1>0. case \in DOMAIN Cases /\ UNCHANGED case /\ i \in node[e].hosted
  BY Zenon DEF Base, MintInvite
<1>c. /\ Calls' = Calls
      /\ \A z : At(z)' = At(z) /\ Of(z)' = Of(z) /\ IsLink(z)' = IsLink(z)
      /\ \A z \in Calls : At(z) \in Devices /\ Of(z) \in Identities
  BY <1>0, CallFacts, CaseFixed, Zenon
<1>1. UNCHANGED <<store, disk, record, calls, promised>>
  BY Zenon DEF MintInvite
<1>2. \A d \in Devices :
         SameOwners(d) /\ node'[d].half = node[d].half /\ node'[d].writers = node[d].writers
  BY Zenon DEF MintInvite, SameOwners, Base, NodesOK, NodeFields
<1>3. \A s \in Secrets : (handed'[s].by = handed[s].by /\ handed'[s].of = handed[s].of) \/ handed'[s].of = i
  BY Zenon DEF MintInvite, Base, TablesOK
<1> USE DEF SameOwners
<1>5. CallsHold'
  BY <1>0, <1>c, <1>1, <1>2, Zenon DEF OwnersInv, CallsHold, Up
<1>6. ASSUME NEW b \in Calls PROVE Held(b)'
  BY <1>0, <1>c, <1>1, <1>2, Zenon DEF OwnersInv, Held
<1>7. WritersOK' /\ TasksOK'
  BY <1>0, <1>c, <1>2 DEF OwnersInv, WritersOK, TasksOK
<1>8. Reserved'
  BY <1>0, <1>c, <1>1, <1>2, Zenon DEF OwnersInv, Reserved
<1>9. ASSUME NEW b \in Calls, ~IsLink(b), Young(b)' PROVE UnsharedOf(b)'
  <2>1. Young(b) /\ (Fresh(b)' <=> Fresh(b)) /\ (Undone(b)' <=> Undone(b))
    BY <1>0, <1>c, <1>1, <1>2, <1>9, Zenon DEF Young, Fresh, Undone
  <2>2. UnsharedOf(b)
    BY <1>9, <2>1, Zenon DEF OwnersInv, Unshared
  <2>3. \A s \in Secrets : handed'[s].by # Nobody => handed'[s].of # Of(b)
    BY <1>0, <1>c, <1>3, <2>2, Zenon DEF UnsharedOf
  <2> QED BY <1>0, <1>c, <1>1, <1>2, <2>1, <2>2, <2>3, Zenon DEF UnsharedOf
<1>10. Unpromised'
  BY <1>0, <1>c, <1>1, <1>2, Zenon DEF OwnersInv, Unpromised, Owns
<1>11. Kept'
  BY <1>1, <1>2 DEF OwnersInv, Kept, Up
<1>12. Halves'
  BY <1>1, <1>2 DEF OwnersInv, Halves, Recoverable
<1>13. HalvesOwned'
  BY <1>0, <1>c, <1>1, <1>2 DEF OwnersInv, HalvesOwned
<1>14. Unshared'
  BY <1>0, <1>c, <1>9, Zenon DEF Unshared
<1> QED BY <1>0, <1>c, <1>5, <1>6, <1>7, <1>8, <1>10, <1>11, <1>12, <1>13, <1>14, Zenon DEF OwnersInv

\* A start brings the halves of the recorded identities up, and is done once
\* all of them are.
LEMMA StartOwners ==
    ASSUME Base, OwnersInv, NEW e \in Devices,
           Ready(e) \/ (\E i \in Identities : Recovers(e, i))
    PROVE  OwnersInv'
<1>0. case \in DOMAIN Cases /\ UNCHANGED case /\ node[e].power = "starting"
  BY Zenon DEF Base, Ready, Recovers
<1>c. /\ Calls' = Calls
      /\ \A z : At(z)' = At(z) /\ Of(z)' = Of(z) /\ IsLink(z)' = IsLink(z)
      /\ \A z \in Calls : At(z) \in Devices /\ Of(z) \in Identities
  BY <1>0, CallFacts, CaseFixed, Zenon
<1>1. UNCHANGED <<store, disk, record, calls, handed, promised>>
  BY Zenon DEF Ready, Recovers
<1>2. \A d \in Devices :
         /\ node'[d].inflight = node[d].inflight /\ node'[d].tasks = node[d].tasks
         /\ node'[d].writers = node[d].writers
  <2>1. CASE Ready(e)
    BY <2>1, Zenon DEF Ready, Base, NodesOK, NodeFields
  <2>2. CASE \E i \in Identities : Recovers(e, i)
    BY <2>2 DEF Recovers, Governed, Base, NodesOK, NodeFields
  <2> QED BY <2>1, <2>2, Zenon
<1>3. \A d \in Devices : d # e => node'[d] = node[d]
  BY Zenon DEF Ready, Recovers, Base, NodesOK
<1>4. /\ node'[e].power \in {"starting", "up"}
      /\ node'[e].hosted \in {node[e].hosted, Recoverable(e)}
      /\ DOMAIN node'[e].half = Identities
      /\ \A i \in Identities : node[e].half[i] = "armed" => node'[e].half[i] = "armed"
      /\ \A i \in Identities : node'[e].half[i] # node[e].half[i] =>
            node'[e].half[i] = "armed" /\ i \in Recoverable(e)
      /\ node'[e].power = "up" =>
            /\ node'[e].hosted = Recoverable(e)
            /\ \A i \in Recoverable(e) : node'[e].half[i] = "armed"
      /\ node'[e].power = "starting" => node'[e].hosted = node[e].hosted
  <2>1. CASE Ready(e)
    BY <2>1 DEF Ready, Base, NodesOK, NodeFields, OwnersInv, Halves
  <2>2. CASE \E i \in Identities : Recovers(e, i)
    BY <2>2 DEF Recovers, Governed, Base, NodesOK, NodeFields, OwnersInv, Halves
  <2> QED BY <2>1, <2>2, Zenon
<1>5. /\ \A c \in Calls : At(c) = e => calls[c].pc = "idle"
      /\ node[e].tasks = {}
  BY <1>0, <1>c, Zenon DEF OwnersInv, CallsHold, Up, TasksOK
<1>6. CallsHold'
  BY <1>0, <1>c, <1>1, <1>3, <1>5, Zenon DEF OwnersInv, CallsHold, Up
<1>7. ASSUME NEW b \in Calls PROVE Held(b)'
  BY <1>0, <1>c, <1>1, <1>3, <1>5, Zenon DEF OwnersInv, Held
<1>8. WritersOK' /\ TasksOK'
  <2>1. WritersOK'
    BY <1>c, <1>2, Zenon DEF OwnersInv, WritersOK
  <2>2. ASSUME NEW d \in Devices, node'[d].power \in {"off", "starting"} PROVE node'[d].tasks = {}
    <3>1. CASE d = e
      BY <1>2, <1>5, <3>1, Zenon
    <3>2. CASE d # e
      BY <1>3, <2>2, <3>2, Zenon DEF OwnersInv, TasksOK
    <3> QED BY <3>1, <3>2, Zenon
  <2>3. \A d \in Devices : node'[d].tasks = node[d].tasks
    BY <1>2, Zenon
  <2>4. ASSUME NEW d \in Devices, NEW t \in node'[d].tasks
        PROVE  /\ DOMAIN t = {"identity", "pms", "link", "step"}
               /\ ~t.link => \E a \in Calls : ~IsLink(a) /\ At(a) = d /\ Of(a) = t.identity
    BY <2>3, <2>4, Zenon DEF OwnersInv, TasksOK
  <2>5. TasksOK'
    BY <1>c, <2>2, <2>4, ZenonT(40) DEF TasksOK
  <2> QED BY <2>1, <2>5, Zenon
<1>9. Reserved'
  BY <1>0, <1>c, <1>1, <1>2, Zenon DEF OwnersInv, Reserved
<1>10. ASSUME NEW b \in Calls, ~IsLink(b), Young(b)' PROVE UnsharedOf(b)'
  <2>1. Young(b) /\ (Fresh(b)' <=> Fresh(b)) /\ (Undone(b)' <=> Undone(b))
    BY <1>0, <1>c, <1>1, <1>2, <1>10, Zenon DEF Young, Fresh, Undone
  <2>2. UnsharedOf(b)
    BY <1>10, <2>1, Zenon DEF OwnersInv, Unshared
  <2>3. Of(b) \notin record[e]
    <3>1. CASE At(b) = e
      BY <1>5, <2>1, <2>2, <3>1, Zenon DEF Young, Undone, UnsharedOf
    <3> QED BY <2>2, <3>1, Zenon DEF UnsharedOf
  <2>4. \A d \in Devices : Of(b) \notin node'[d].hosted
    BY <1>3, <1>4, <2>2, <2>3, Zenon DEF UnsharedOf, Recoverable
  <2> QED BY <1>0, <1>c, <1>1, <1>2, <2>1, <2>2, <2>4, Zenon DEF UnsharedOf
<1>11. Unpromised'
  BY <1>0, <1>c, <1>1, <1>2, <1>3, <1>5, Zenon DEF OwnersInv, Unpromised, Owns
<1>12. Kept'
  <2>1. ASSUME NEW d \in Devices, d # e
        PROVE  /\ Up(d)' => promised[d] \subseteq node'[d].hosted
               /\ \A i \in node'[d].hosted : node'[d].half[i] = "armed" /\ i \in DOMAIN store[d]
    BY <1>3, <2>1, Zenon DEF OwnersInv, Kept, Up
  <2>2. Up(e)' => promised[e] \subseteq node'[e].hosted
    BY <1>4, Zenon DEF OwnersInv, Kept, Up, Recoverable
  <2>3. \A i \in node'[e].hosted : node'[e].half[i] = "armed" /\ i \in DOMAIN store[e]
    BY <1>4, Zenon DEF OwnersInv, Kept, Halves, Recoverable
  <2> QED BY <1>1, <2>1, <2>2, <2>3, Zenon DEF OwnersInv, Kept
<1>13. Halves'
  <2>1. \A d : Recoverable(d)' = Recoverable(d)
    BY <1>1, Zenon DEF Recoverable
  <2>2. Recoverable(e) \subseteq Identities
    BY Zenon DEF OwnersInv, Halves, Recoverable
  <2>3. /\ DOMAIN node'[e].half = Identities /\ record[e] \cup node'[e].hosted \subseteq Identities
        /\ node'[e].power = "starting" => \A i \in Identities : node'[e].half[i] # "none" =>
              node'[e].half[i] = "armed" /\ i \in Recoverable(e)
    <3>1. /\ record[e] \cup node[e].hosted \subseteq Identities
          /\ \A i \in Identities : node[e].half[i] # "none" =>
                node[e].half[i] = "armed" /\ i \in Recoverable(e)
      BY <1>0, Zenon DEF OwnersInv, Halves
    <3>2. record[e] \cup node'[e].hosted \subseteq Identities
      BY <1>4, <2>2, <3>1, Zenon
    <3>3. ASSUME NEW i \in Identities, node'[e].half[i] # "none"
          PROVE  node'[e].half[i] = "armed" /\ i \in Recoverable(e)
      BY <1>4, <3>1, <3>3, Zenon
    <3> QED BY <1>4, <3>2, <3>3, Zenon
  <2>4. ASSUME NEW d \in Devices, d # e
        PROVE  /\ DOMAIN node'[d].half = Identities /\ record[d] \cup node'[d].hosted \subseteq Identities
               /\ node'[d].power = "starting" => \A i \in Identities : node'[d].half[i] # "none" =>
                     node'[d].half[i] = "armed" /\ i \in Recoverable(d)
    BY <1>3, <2>4, Zenon DEF OwnersInv, Halves
  <2> QED BY <1>1, <2>1, <2>3, <2>4, Zenon DEF Halves
<1>14. HalvesOwned'
  <2>1. ASSUME NEW i \in Identities, node'[e].half[i] # "none"
        PROVE  i \in node'[e].hosted \/ node'[e].power = "starting"
    BY <1>0, <1>c, <1>4, <2>1, Zenon DEF OwnersInv, Halves
  <2> QED BY <1>0, <1>c, <1>1, <1>2, <1>3, <2>1 DEF OwnersInv, HalvesOwned
<1>15. Unshared'
  BY <1>0, <1>c, <1>10, Zenon DEF Unshared
<1> QED BY <1>0, <1>c, <1>6, <1>7, <1>8, <1>9, <1>11, <1>12, <1>13, <1>14, <1>15, Zenon DEF OwnersInv

\* Steps that leave the owners and the replicas alone.
LEMMA AsideOwners ==
    ASSUME Base, OwnersInv,
           \/ UNCHANGED hostCore
           \/ \E x \in serving : Enters(x) \/ Burns(x) \/ MarksUsed(x) \/ Leaves(x)
           \/ \E d \in Devices, s \in Secrets : Lapses(d, s)
           \/ \E d \in Devices, i \in Identities : Sweeps(d, i)
           \/ \E d, e \in Devices, i \in Identities : Exchanges(d, e, i)
           \/ \E d \in Devices : \E i \in DOMAIN store[d] : Filed(d, i)
           \/ \E d \in Devices : StoreSettles(d)
    PROVE  OwnersInv'
<1> USE DEF Base, NodesOK, NodeFields, TablesOK, SameHanded, StoresKept, SameOwners
<1>1. ASSUME NEW x \in serving, Enters(x) PROVE OwnersInv'
  BY <1>1, OwnersKept, Zenon DEF Enters
<1>2. ASSUME NEW x \in serving, Burns(x) PROVE OwnersInv'
  <2> DEFINE i == node[x.at].invites[x.secret].minted_for
             burned == Burned(node[x.at].invites, x.secret)
             pms == WithPending(store[x.at][i], At(x.call), Now(i, At(x.call)))
  <2>1. \A d \in Devices : /\ SameOwners(d) /\ node'[d].half = node[d].half
                           /\ node'[d].writers = node[d].writers
    <3>1. node' = node \/ node' = [node EXCEPT ![x.at].invites = burned]
      BY <1>2, Zenon DEF Burns
    <3> HIDE DEF burned
    <3> QED BY <3>1
  <2>2. StoresKept
    <3>1. UNCHANGED disk /\ (store' = store \/ store' = [store EXCEPT ![x.at][i] = pms])
      BY <1>2, Zenon DEF Burns
    <3> HIDE DEF pms, i
    <3> QED BY <3>1, Zenon
  <2> QED BY <1>2, <2>1, <2>2, OwnersKept, Zenon DEF Burns
<1>3. ASSUME NEW x \in serving, MarksUsed(x) PROVE OwnersInv'
  BY <1>3, OwnersKept, Zenon DEF MarksUsed
<1>4. ASSUME NEW x \in serving, Leaves(x) PROVE OwnersInv'
  BY <1>4, OwnersKept, Zenon DEF Leaves
<1>5. ASSUME NEW d \in Devices, NEW s \in Secrets, Lapses(d, s) PROVE OwnersInv'
  BY <1>5, OwnersKept, Zenon DEF Lapses
<1>6. ASSUME NEW d \in Devices, NEW i \in Identities, Sweeps(d, i) PROVE OwnersInv'
  BY <1>6, OwnersKept, Zenon DEF Sweeps
<1>7. ASSUME NEW d \in Devices, NEW e \in Devices, NEW i \in Identities, Exchanges(d, e, i)
      PROVE  OwnersInv'
  BY <1>7, OwnersKept, Zenon DEF Exchanges
<1>8. ASSUME NEW d \in Devices, NEW i \in DOMAIN store[d], Filed(d, i) PROVE OwnersInv'
  BY <1>8, OwnersKept, Zenon DEF Filed
<1>9. ASSUME NEW d \in Devices, StoreSettles(d) PROVE OwnersInv'
  BY <1>9, OwnersKept, Zenon DEF StoreSettles
<1>10. CASE UNCHANGED hostCore
  BY <1>10, OwnersKept, Zenon DEF hostCore
<1> QED BY <1>1, <1>2, <1>3, <1>4, <1>5, <1>6, <1>7, <1>8, <1>9, <1>10, Zenon

\* Steps of a running call that bring it nearer to its commit point or to its
\* roll back.
LEMMA CallOwners ==
    ASSUME Base, OwnersInv, NEW c \in Calls,
           \/ CreateFails(c) \/ CreateArms(c) \/ CreatePms(c) \/ Commits(c) \/ RecordFails(c)
           \/ Dials(c) \/ Unanswered(c) \/ LinkProvisions(c) \/ LinkImports(c) \/ LinkArms(c)
           \/ LinkFails(c) \/ LinkTimesOut(c) \/ LinkGivesUp(c) \/ LinkCatchesUp(c)
           \/ LinkConfirms(c)
    PROVE  OwnersInv'
<1> USE DEF Base, NodesOK, NodeFields, TablesOK, CallsOK, CallFields, SameHanded, StoresKept,
            SameOwners, Owns, Guarded, Goes
<1>0. /\ At(c) \in Devices /\ Of(c) \in Identities /\ DOMAIN node[At(c)].half = Identities /\ Held(c)
      /\ At(c)' = At(c) /\ Of(c)' = Of(c)
  <2>1. UNCHANGED case
    BY Zenon DEF CreateFails, CreateArms, CreatePms, Commits, RecordFails, Dials, Unanswered,
           LinkProvisions, LinkImports, LinkArms, LinkFails, LinkTimesOut, LinkGivesUp,
           LinkCatchesUp, LinkConfirms
  <2> QED BY <2>1, CallFacts, CaseFixed, Zenon DEF OwnersInv, Halves
<1>1. CASE CreateFails(c)
  BY <1>0, <1>1, CallMoves DEF CreateFails, Held
<1>2. CASE CreateArms(c)
  BY <1>0, <1>2, CallMoves DEF CreateArms, Governed, Held
<1>3. CASE CreatePms(c)
  BY <1>0, <1>3, CallMoves DEF CreatePms, Holding, Held
<1>4. CASE Commits(c)
  <2>1. /\ calls[c].pc = "commit" /\ calls'[c].pc = "record"
        /\ calls'[c].round = calls[c].round /\ calls'[c].wrote = "running"
        /\ \A b \in Calls : b # c => calls'[b] = calls[b]
    BY <1>4, Zenon DEF Commits
  <2>2. \A d \in Devices :
          /\ SameOwners(d) /\ node'[d].half = node[d].half
          /\ \A w \in node'[d].writers : w \in node[d].writers \/ (d = At(c) /\ w.call = c)
    BY <1>4 DEF Commits
  <2>3. /\ UNCHANGED <<case, record, promised, handed, store>>
        /\ disk' = [disk EXCEPT ![At(c)] = store[At(c)]]
    BY <1>4, Zenon DEF Commits, FlushStores
  <2>d. \A d \in Devices : disk'[d] = IF d = At(c) THEN store[d] ELSE disk[d]
    BY <2>3, ZenonT(40)
  <2>4. StoresKept
    BY <2>3, <2>d, Zenon
  <2>5. SameHanded
    BY <2>3, Zenon
  <2>6. node[At(c)].half[Of(c)] = "armed" /\ Of(c) \in DOMAIN store[At(c)]
    BY <1>0, <2>1, Zenon DEF Held
  <2>7. Held(c)'
    <3>1. disk'[At(c)] = store[At(c)] /\ store'[At(c)] = store[At(c)]
      BY <1>0, <2>3, <2>d, Zenon
    <3>2. node'[At(c)].half = node[At(c)].half
      BY <1>0, <2>2, Zenon
    <3> QED BY <1>0, <2>6, <3>1, <3>2, Zenon DEF Held
  <2>8. /\ Owns(c)' => Owns(c)
        /\ calls[c].pc # "idle" /\ calls'[c].pc \notin {"idle", "create"}
        /\ calls[c].pc \in Guarded => calls'[c].pc \in Guarded
        /\ calls'[c].wrote = "ok" => calls[c].wrote = "ok"
    BY <2>1, Zenon DEF Owns, Guarded
  <2> HIDE DEF Base, NodesOK, TablesOK, CallsOK, SameHanded, StoresKept, SameOwners
  <2> QED BY <2>1, <2>2, <2>3, <2>4, <2>5, <2>7, <2>8, CallMoves, ZenonT(40)
<1>5. CASE RecordFails(c)
  BY <1>0, <1>5, CallMoves DEF RecordFails, Held
<1>6. CASE Dials(c)
  BY <1>0, <1>6, CallMoves DEF Dials, Held
<1>7. CASE Unanswered(c)
  BY <1>0, <1>7, CallMoves DEF Unanswered, Held
<1>9. CASE LinkImports(c)
  <2>1. /\ calls[c].pc = "import" /\ calls'[c].pc = "arm"
        /\ calls'[c].round = calls[c].round /\ calls'[c].wrote = calls[c].wrote
        /\ \A b \in Calls : b # c => calls'[b] = calls[b]
    BY <1>9 DEF LinkImports
  <2>2. UNCHANGED <<case, node, record, promised, handed, disk>>
    BY <1>9, Zenon DEF LinkImports
  <2>3. \A d \in Devices : store'[d] = IF d = At(c) THEN Imported(store[d], Of(c)) ELSE store[d]
    BY <1>9, ZenonT(40) DEF LinkImports
  <2>4. \A s : DOMAIN Imported(s, Of(c)) = DOMAIN s \cup {Of(c)}
    BY Zenon DEF Imported, Holding
  <2>5. StoresKept /\ Held(c)' /\ SameHanded
    <3>1. \A d \in Devices :
             DOMAIN (store'[d]) = IF d = At(c) THEN DOMAIN store[d] \cup {Of(c)} ELSE DOMAIN store[d]
      BY <2>3, <2>4, Zenon
    <3>2. StoresKept /\ SameHanded
      BY <2>2, <3>1, Zenon
    <3>3. Of(c) \in DOMAIN (store'[At(c)])
      BY <1>0, <3>1, Zenon
    <3>4. Held(c)'
      BY <1>0, <2>1, <3>3, Zenon DEF Held
    <3> QED BY <3>2, <3>4, Zenon
  <2>6. /\ Owns(c)' => Owns(c)
        /\ calls[c].pc # "idle" /\ calls'[c].pc \notin {"idle", "create"}
        /\ calls[c].pc \in Guarded => calls'[c].pc \in Guarded
        /\ calls'[c].wrote = "ok" => calls[c].wrote = "ok"
    BY <2>1, Zenon DEF Owns, Guarded
  <2>7. \A d \in Devices : SameOwners(d)
    BY <2>2, Zenon
  <2> HIDE DEF Base, NodesOK, TablesOK, CallsOK, SameHanded, StoresKept, SameOwners
  <2> QED BY <2>1, <2>2, <2>5, <2>6, <2>7, CallMoves, ZenonT(40)
<1>10. CASE LinkArms(c)
  BY <1>0, <1>10, CallMoves DEF LinkArms, Governed, Held
<1>11. CASE LinkFails(c)
  BY <1>0, <1>11, CallMoves DEF LinkFails, Held
<1>12. CASE LinkTimesOut(c)
  BY <1>0, <1>12, CallMoves DEF LinkTimesOut, Held
<1>13. CASE LinkGivesUp(c)
  BY <1>0, <1>13, CallMoves, Zenon DEF LinkGivesUp, Held
<1>14. CASE LinkCatchesUp(c)
  <2> DEFINE e == Inviter(c)  met == Merged(store[At(c)][Of(c)], store[e][Of(c)])
  <2>1. PICK gone : store' = [store EXCEPT ![At(c)][Of(c)] = CaughtUp(met, gone, Of(c), At(c)),
                                           ![e][Of(c)] = met]
    BY <1>14, Zenon DEF LinkCatchesUp
  <2>2. StoresKept
    <3> DEFINE pms == CaughtUp(met, gone, Of(c), At(c))
    <3>1. UNCHANGED disk /\ store' = [store EXCEPT ![At(c)][Of(c)] = pms, ![e][Of(c)] = met]
      BY <1>14, <2>1, Zenon DEF LinkCatchesUp
    <3> HIDE DEF pms, met, e
    <3> QED BY <3>1, Zenon
  <2>3. /\ calls[c].pc = "catch_up" /\ calls' = [calls EXCEPT ![c].pc = "commit"]
        /\ UNCHANGED <<case, node, disk, record, handed, promised>>
    BY <1>14, Zenon DEF LinkCatchesUp
  <2>4. Held(c)'
    BY <1>0, <2>2, <2>3 DEF Held
  <2> QED BY <1>0, <2>2, <2>3, <2>4, CallMoves
<1>15. CASE LinkConfirms(c)
  <2>1. /\ calls[c].pc = "confirm" /\ calls'[c].pc = "release"
        /\ calls'[c].round = calls[c].round /\ calls'[c].wrote = calls[c].wrote
        /\ \A b \in Calls : b # c => calls'[b] = calls[b]
    BY <1>15, Zenon DEF LinkConfirms
  <2>2. \A d \in Devices : /\ SameOwners(d) /\ node'[d].half = node[d].half
                           /\ node'[d].writers = node[d].writers
    BY <1>15, ZenonT(40) DEF LinkConfirms
  <2>3. UNCHANGED <<case, record, promised, handed, disk>>
    BY <1>15, Zenon DEF LinkConfirms
  <2>4. StoresKept
    BY <1>15, Zenon DEF LinkConfirms
  <2>5. SameHanded /\ Held(c)'
    BY <2>1, <2>3, Zenon DEF Held
  <2>6. /\ Owns(c)' => Owns(c)
        /\ calls[c].pc # "idle" /\ calls'[c].pc \notin {"idle", "create"}
        /\ calls[c].pc \in Guarded => calls'[c].pc \in Guarded
        /\ calls'[c].wrote = "ok" => calls[c].wrote = "ok"
    BY <2>1, Zenon DEF Owns, Guarded
  <2> HIDE DEF Base, NodesOK, TablesOK, CallsOK, SameHanded, StoresKept, SameOwners
  <2> QED BY <2>1, <2>2, <2>3, <2>4, <2>5, <2>6, CallMoves, ZenonT(40)
<1>8. CASE LinkProvisions(c)
  <2>1. CASE calls' = [calls EXCEPT ![c].pc = "import"]
             /\ node' = [node EXCEPT ![At(c)] = [Provisioned(@, Of(c)) EXCEPT !.lock = c]]
    <3>1. /\ calls[c].pc = "replied" /\ calls'[c].pc = "import"
          /\ calls'[c].round = calls[c].round /\ calls'[c].wrote = calls[c].wrote
          /\ \A b \in Calls : b # c => calls'[b] = calls[b]
      BY <1>8, <2>1, ZenonT(40) DEF LinkProvisions
    <3>2. \A d \in Devices : /\ SameOwners(d) /\ node'[d].writers = node[d].writers
                             /\ DOMAIN node'[d].half = DOMAIN node[d].half
      BY <2>1 DEF Provisioned
    <3>3. \A d \in Devices, i \in Identities : node'[d].half[i] # node[d].half[i] =>
             d = At(c) /\ i = Of(c) /\ node[d].half[i] = "none"
      BY <1>0, <2>1 DEF Provisioned
    <3>4. /\ UNCHANGED <<case, record, promised, handed, store, disk>>
          /\ SameHanded /\ StoresKept
      BY <1>8, Zenon DEF LinkProvisions
    <3>5. Held(c)'
      BY <3>1, Zenon DEF Held
    <3>6. /\ Owns(c)' => Owns(c)
          /\ calls[c].pc # "idle" /\ calls'[c].pc \notin {"idle", "create"}
          /\ calls'[c].pc \in Guarded
          /\ calls'[c].wrote = "ok" => calls[c].wrote = "ok"
      BY <3>1, Zenon DEF Owns, Guarded
    <3> HIDE DEF Base, NodesOK, TablesOK, CallsOK, SameHanded, StoresKept, SameOwners
    <3> QED BY <3>1, <3>2, <3>3, <3>4, <3>5, <3>6, CallMoves, ZenonT(40)
  <2>2. CASE calls' = [calls EXCEPT ![c].pc = "release"] /\ UNCHANGED node
    BY <1>0, <1>8, <2>2, CallMoves, ZenonT(40) DEF LinkProvisions, Held
  <2> QED BY <1>8, <2>1, <2>2, Zenon DEF LinkProvisions
<1> QED BY <1>1, <1>2, <1>3, <1>4, <1>5, <1>6, <1>7, <1>8, <1>9, <1>10, <1>11, <1>12, <1>13,
           <1>14, <1>15, Zenon

\* A reply reaches a call that waits for it, or nobody.
LEMMA RepliesOwners ==
    ASSUME Base, OwnersInv, NEW x \in serving, Replies(x) PROVE OwnersInv'
<1> USE DEF Base, NodesOK, NodeFields, TablesOK, CallsOK, CallFields, SameHanded, StoresKept,
            SameOwners
<1>1. /\ UNCHANGED <<case, node, store, disk, record, promised>>
      /\ \A s \in Secrets : handed'[s].by = handed[s].by /\ handed'[s].of = handed[s].of
  BY DEF Replies
<1>2. \/ UNCHANGED calls
      \/ calls[x.call].pc = "waiting" /\ calls' = [calls EXCEPT ![x.call].pc = "replied"]
  BY Zenon DEF Replies
<1>3. CASE UNCHANGED calls \/ x.call \notin Calls
  BY <1>1, <1>2, <1>3, OwnersKept, Zenon
<1>4. CASE /\ x.call \in Calls /\ calls[x.call].pc = "waiting"
           /\ calls' = [calls EXCEPT ![x.call].pc = "replied"]
  BY <1>1, <1>4, CallMoves, Zenon DEF Owns, Guarded, Held
<1> QED BY <1>2, <1>3, <1>4, Zenon

\* Starts, shutdowns and kills.
LEMMA PowerOwners ==
    ASSUME Base, OwnersInv, NEW e \in Devices,
           \/ Starts(e) \/ StartFails(e) \/ Stops(e) \/ Crashes(e) \/ ShutsDown(e) \/ Drains(e)
    PROVE  OwnersInv'
<1> USE DEF Base, NodesOK, NodeFields, TablesOK, CallsOK, CallFields
<1>0. node[e].power # "up" => \A c \in Calls : At(c) = e => calls[c].pc = "idle"
  BY Zenon DEF OwnersInv, CallsHold, Up
<1>1. CASE Starts(e)
  BY <1>0, <1>1, NodeClears, Zenon DEF Starts, Assembled, Off
<1>2. CASE StartFails(e)
  BY <1>0, <1>2, NodeClears, Zenon DEF StartFails, Stopped, Off
<1>3. CASE Stops(e)
  BY <1>0, <1>3, NodeClears, Zenon DEF Stops, Stopped, Off
<1>4. CASE Crashes(e)
  BY <1>4, NodeClears DEF Crashes, Off
<1>5. CASE ShutsDown(e)
  BY <1>5, NodeWindsDown, Zenon DEF ShutsDown, Up
<1>6. CASE Drains(e)
  BY <1>0, <1>6, NodeWindsDown, ZenonT(40) DEF Drains
<1> QED BY <1>1, <1>2, <1>3, <1>4, <1>5, <1>6, Zenon

\* Every step keeps who owns what.
LEMMA OwnersStep == Base /\ OwnersInv /\ HostStep => OwnersInv'
<1> SUFFICES ASSUME Base, OwnersInv, HostStep PROVE OwnersInv'
  BY Zenon
<1>1. ASSUME NEW c \in Calls, CallActs(c) \/ CallTurns(c) PROVE OwnersInv'
  BY <1>1, CallOwners, RecordedOwners, ReleasesOwners, RollsBackOwners, CreateBeginsOwners,
     LinkBeginsOwners, CancelsOwners, Zenon DEF CallActs, CallTurns
<1>2. ASSUME NEW x \in serving, ServingActs(x) PROVE OwnersInv'
  BY <1>2, AsideOwners, RepliesOwners, Zenon DEF ServingActs
<1>3. ASSUME NEW d \in Devices, DetachedActs(d) PROVE OwnersInv'
  BY <1>3, WriterEndsOwners, TaskUndoesOwners, TaskReleasesOwners, Zenon DEF DetachedActs
<1>4. ASSUME NEW d \in Devices, DeviceActs(d) PROVE OwnersInv'
  BY <1>4, StartOwners, PowerOwners, AsideOwners, Zenon DEF DeviceActs
<1>5. ASSUME NEW d \in Devices, NEW i \in Identities,
             Sweeps(d, i) \/ Recovers(d, i) \/ MintInvite(d, i)
      PROVE  OwnersInv'
  BY <1>5, AsideOwners, StartOwners, MintOwners, Zenon
<1> QED BY <1>1, <1>2, <1>3, <1>4, <1>5, AsideOwners, Zenon DEF HostStep

\* Nothing is owned or promised at the outset but what is hosted.
LEMMA InitOwners == HostInit => OwnersInv
<1> SUFFICES ASSUME HostInit PROVE OwnersInv
  BY Zenon
<1>0. case \in DOMAIN Cases /\ Setting.hosted \in [Devices -> SUBSET Identities]
  BY CasesAssumption, Zenon DEF HostInit, Setting
<1>1. \A d \in Devices :
         /\ node[d].power = "up" /\ node[d].hosted = Setting.hosted[d] /\ node[d].tasks = {}
         /\ node[d].writers = {}
         /\ DOMAIN node[d].half = Identities
         /\ \A i \in Identities : i \in Setting.hosted[d] => node[d].half[i] = "armed"
         /\ \A i \in Identities : i \notin Setting.hosted[d] => node[d].half[i] = "none"
  BY Zenon DEF HostInit, Off
<1>2. \A d \in Devices :
         /\ DOMAIN store[d] = Setting.hosted[d] /\ disk[d] = store[d]
         /\ record[d] = Setting.hosted[d] /\ promised[d] = Setting.hosted[d]
  BY Zenon DEF HostInit
<1>3. \A c \in Calls : calls[c].pc = "idle" /\ calls[c].round = 0 /\ calls[c].wrote = "running"
  BY Zenon DEF HostInit, IdleCall
<1>4. \A s \in Secrets : handed[s].by = Nobody
  BY Zenon DEF HostInit
<1>5. CallsHold
  BY <1>3 DEF CallsHold
<1>6. \A c \in Calls : Held(c)
  BY <1>3, Zenon DEF Held
<1>7. WritersOK /\ TasksOK
  BY <1>1, Zenon DEF WritersOK, TasksOK
<1>8. Reserved
  BY <1>1, <1>3, Zenon DEF Reserved
<1>9. ASSUME NEW c \in Calls, ~IsLink(c) PROVE UnsharedOf(c)
  <2>1. At(c) \in Devices /\ \A d \in Devices : Of(c) \notin Setting.hosted[d]
    BY <1>0, <1>9, CallFacts, Zenon
  <2> QED BY <1>1, <1>2, <1>3, <1>4, <2>1 DEF UnsharedOf, Undone
<1>10. Unpromised
  BY <1>1, <1>3, Zenon DEF Unpromised, Owns
<1>11. Kept
  <2>1. \A d \in Devices : Setting.hosted[d] \subseteq Identities
    BY <1>0, Zenon
  <2>2. \A d \in Devices : promised[d] \subseteq record[d] \cap DOMAIN store[d] \cap DOMAIN disk[d]
    BY <1>2, Zenon
  <2>3. \A d \in Devices : promised[d] \subseteq node[d].hosted
    BY <1>1, <1>2
  <2>4. \A d \in Devices : \A i \in node[d].hosted :
           node[d].half[i] = "armed" /\ i \in DOMAIN store[d]
    BY <1>1, <1>2, <2>1
  <2> QED BY <2>2, <2>3, <2>4, Zenon DEF Kept
<1>12. Halves
  BY <1>0, <1>1, <1>2 DEF Halves
<1>13. HalvesOwned
  BY <1>1, Zenon DEF HalvesOwned
<1>14. Unshared
  BY <1>9, Zenon DEF Unshared
<1> QED BY <1>5, <1>6, <1>7, <1>8, <1>10, <1>11, <1>12, <1>13, <1>14, Zenon DEF OwnersInv

-----------------------------------------------------------------------------

\* The collection, the temp tags and the fetches are aside from the host.
Asides ==
    \/ \E c \in Calls : KeyWrites(c)
    \/ \E d \in Devices : Reads(d) \/ ReadFails(d) \/ Sweep(d) \/ RunBegins(d) \/ BlobsSettle(d)
    \/ \E d \in Devices, i \in Identities : Takes(d, i) \/ Writes(d, Payload(i, "note"))
    \/ \E d, e \in Devices : \E w \in blobs[e] : Fetches(d, e, w)
    \/ \E d \in Devices : \E w \in tags[d] : Sends(d, w) \/ Untags(d, w)
    \/ UNCHANGED vars

LEMMA AsideKeeps == ASSUME Asides PROVE UNCHANGED hostCore
BY ZenonT(40) DEF Asides, hostCore, KeyWrites, Reads, ReadFails, Sweep, RunBegins, BlobsSettle, Takes,
       Writes, Fetches, Sends, Untags, vars, hostVars

\* The entry of a payload placed here is inserted once its payload is there.
LEMMA InsertsFiles ==
    ASSUME NEW d \in Devices, NEW w \in queue[d], Inserts(d, w)
    PROVE  \E i \in DOMAIN store[d] : Filed(d, i)
<1>1. /\ w[1] \in DOMAIN store[d]
      /\ store' = [store EXCEPT ![d][w[1]].payloads = @ \cup {w[2]}]
      /\ UNCHANGED <<case, node, disk, record, calls, serving, handed, promised>>
  BY Zenon DEF Inserts
<1>2. \E names : store' = [store EXCEPT ![d][w[1]].payloads = names]
  BY <1>1, Zenon
<1> QED BY <1>1, <1>2, Zenon DEF Filed

\* A step of the runtime is one of the host, or aside from it.
LEMMA StepsOfTheHost == ASSUME [Next]_vars PROVE HostStep
<1>1. CASE Asides
  BY <1>1, AsideKeeps, Zenon DEF HostStep
<1>2. ASSUME NEW c \in Calls,
             CallStep(c) \/ CommitsAll(c) \/ RollsBackAll(c) \/ CatchesUpAll(c)
      PROVE  CallActs(c)
  BY <1>2, Zenon DEF CallStep, CommitsAll, RollsBackAll, CatchesUpAll, CallActs
<1>3. ASSUME NEW x \in serving, ServingStep(x) PROVE ServingActs(x)
  BY <1>3, Zenon DEF ServingStep, ServingActs
<1>4. ASSUME NEW d \in Devices, NEW w \in node[d].writers, WriterEnds(d, w) PROVE DetachedActs(d)
  BY <1>4, Zenon DEF DetachedActs
<1>5. ASSUME NEW d \in Devices, NEW t \in node[d].tasks, TaskUndoesAll(d, t) \/ TaskReleases(d, t)
      PROVE  DetachedActs(d)
  BY <1>5, Zenon DEF DetachedActs, TaskUndoesAll
<1>6. ASSUME NEW d \in Devices,
             \/ Ready(d) \/ Drains(d) \/ StopsAll(d) \/ StoreSettles(d) \/ Starts(d)
             \/ ShutsDown(d) \/ StartFailsAll(d) \/ CrashesAll(d)
      PROVE  DeviceActs(d)
  BY <1>6, Zenon DEF DeviceActs, StopsAll, StartFailsAll, CrashesAll
<1>7. ASSUME NEW c \in Calls,
             \/ CreateBegins(c) \/ (\E s \in Secrets : LinkBegins(c, s)) \/ CreateFails(c)
             \/ LinkFails(c) \/ LinkGivesUp(c) \/ Cancels(c)
      PROVE  CallTurns(c)
  BY <1>7, Zenon DEF CallTurns
<1>8. ASSUME NEW d \in Devices, NEW e \in Devices, NEW i \in Identities, ExchangesAll(d, e, i)
      PROVE  Exchanges(d, e, i)
  BY <1>8, Zenon DEF ExchangesAll
<1>9. CASE Progress
  BY <1>1, <1>2, <1>3, <1>4, <1>5, <1>6, <1>8, <1>9, InsertsFiles, Zenon
     DEF Asides, Progress, HostStep
<1>10. CASE Chance
  BY <1>1, <1>6, <1>7, <1>10, Zenon DEF Asides, Chance, HostStep
<1> QED BY <1>1, <1>9, <1>10, Zenon DEF Next, Asides

-----------------------------------------------------------------------------

LEMMA InitBase == HostInit => Base
<1> SUFFICES ASSUME HostInit PROVE Base
  BY Zenon
<1>1. case \in DOMAIN Cases
  BY Zenon DEF HostInit
<1>2. NodesOK
  BY Zenon DEF HostInit, NodesOK, NodeFields, Off
<1>3. CallsOK
  BY Zenon DEF HostInit, CallsOK, IdleCall, CallFields, CreateOnly, LinkOnly
<1>4. TablesOK
  BY Zenon DEF HostInit, TablesOK
<1> QED BY <1>1, <1>2, <1>3, <1>4, Zenon DEF Base

LEMMA InitSecrets == HostInit => SecretsInv
<1> SUFFICES ASSUME HostInit PROVE SecretsInv
  BY Zenon
<1>1. \A d \in Devices : node[d].invites = <<>>
  BY Zenon DEF HostInit, Off
<1>2. serving = {} /\ \A s \in Secrets : handed[s].to = {}
  BY Zenon DEF HostInit
<1> QED BY <1>1, <1>2 DEF SecretsInv, HandedOK, OneReply

\* For any devices, secrets and overlap of dialogues, of losses, retries,
\* kills and restarts, one dialogue at most is sent a ticket for a secret, and a
\* secret told as used was sent to someone (PendingInvites::verify_and_burn
\* under the lock, mark_used after the reply).
THEOREM SecretBuysOneTicket == Spec => []SecretServesOne
<1>1. Init => Base /\ SecretsInv
  BY InitBase, InitSecrets, Zenon DEF Init
<1>2. Base /\ SecretsInv /\ [Next]_vars => (Base /\ SecretsInv)'
  BY StepsOfTheHost, BaseStep, SecretsStep, Zenon
<1>3. SecretsInv => SecretServesOne
  <2> SUFFICES ASSUME SecretsInv, NEW s \in Secrets
               PROVE  /\ \A one, other \in handed[s].to : one = other
                      /\ \A d \in Devices, i \in Identities :
                            InviteState(node[d].invites, s, i) = "used" => handed[s].to # {}
    BY Zenon DEF SecretServesOne
  <2>1. \A one, other \in handed[s].to : one = other
    BY Zenon DEF SecretsInv, HandedOK
  <2>2. ASSUME NEW d \in Devices, NEW i \in Identities,
               InviteState(node[d].invites, s, i) = "used"
        PROVE  handed[s].to # {}
    <3>1. s \in DOMAIN node[d].invites /\ node[d].invites[s].fate = "used"
      BY <2>2, Zenon DEF InviteState
    <3> QED BY <3>1, Zenon DEF SecretsInv, InviteOK
  <2> QED BY <2>1, <2>2, Zenon
<1> QED BY <1>1, <1>2, <1>3, PTL DEF Spec

\* Who owns what is owned from the outset and by every step.
LEMMA OwnersAlways == Spec => [](Base /\ OwnersInv)
<1>1. Init => Base /\ OwnersInv
  BY InitBase, InitOwners, Zenon DEF Init
<1>2. Base /\ OwnersInv /\ [Next]_vars => (Base /\ OwnersInv)'
  BY StepsOfTheHost, BaseStep, OwnersStep, Zenon
<1> QED BY <1>1, <1>2, PTL DEF Spec

\* For any devices, calls and faults: whatever step a create or a link is
\* cancelled, failed or killed at, a half of the node that was brought up is
\* hosted or in the hands of someone who will host or undo it, and no roll back
\* takes a hosted identity's engine or replica (CreateRollback,
\* LinkRollbackGuard, LinkingReservation).
THEOREM HalvesNeverOrphaned == Spec => []HalfHasOwner
<1>1. OwnersInv => HalfHasOwner
  BY Zenon DEF OwnersInv, HalvesOwned, Kept, HalfHasOwner, HalfIsOwned, HostedStands
<1> QED BY <1>1, OwnersAlways, PTL

\* For any devices, calls and faults: what a create or a link answered Ok for
\* is hosted by every process of that device that came up since, whatever was
\* killed and whichever roll backs ran (record_hosting,
\* recover_hosted_identities).
THEOREM PromisedAlwaysComesBack == Spec => []PromisedComesBack
<1>1. OwnersInv => PromisedComesBack
  BY Zenon DEF OwnersInv, Kept, PromisedComesBack
<1> QED BY <1>1, OwnersAlways, PTL
-----------------------------------------------------------------------------
(* Who is listed.  Once the hosting of an identity is recorded anywhere, the *)
(* devices a replica of it lists as confirmed have recorded theirs; before,  *)
(* the identity is with the device that creates it and lists no other.       *)

PmsFields == {"devices", "pending", "payloads"}
Issued(i) == \E d \in Devices : i \in record[d]
Creates(d, i) == \E c \in Calls : ~IsLink(c) /\ At(c) = d /\ Of(c) = i

\* What a replica of i on e may list.
Lists(e, i, pms) ==
    /\ DOMAIN pms = PmsFields
    /\ Issued(i) => \A d \in pms.devices \cap Devices : i \in record[d]
    /\ ~Issued(i) => Creates(e, i) /\ pms.devices \subseteq {e}

Backed ==
    \A e \in Devices :
        /\ \A i \in DOMAIN store[e] : Lists(e, i, store[e][i])
        /\ \A i \in DOMAIN disk[e] : Lists(e, i, disk[e][i])

\* Whatever is hosted, handed out or linked has been recorded somewhere.
Vouched ==
    /\ \A d \in Devices : node[d].hosted \subseteq record[d]
    /\ \A c \in Calls : calls[c].pc = "confirm" => Of(c) \in record[At(c)]
    /\ \A c \in Calls : IsLink(c) /\ calls[c].pc # "idle" => Issued(Of(c))
    /\ \A s \in Secrets : handed[s].by # Nobody => Issued(handed[s].of)
    /\ \A d \in Devices : \A w \in node[d].writers : IsLink(w.call) => Issued(Of(w.call))

RecordInv == Backed /\ Vouched

\* An identity whose hosting is recorded nowhere is with one device.
LEMMA OneCreates ==
    ASSUME case \in DOMAIN Cases, NEW d, NEW e, NEW i, Creates(d, i), Creates(e, i) PROVE d = e
BY CallFacts, Zenon DEF Creates

\* A step that records nothing leaves the replicas backed, if what it puts into
\* one may be listed there.
LEMMA BackedKept ==
    ASSUME RecordInv, UNCHANGED <<case, record>>,
           \A e \in Devices : \A i \in DOMAIN (store'[e]) :
              \/ i \in DOMAIN store[e] /\ store'[e][i] = store[e][i]
              \/ i \in DOMAIN disk[e] /\ store'[e][i] = disk[e][i]
              \/ Lists(e, i, store'[e][i]),
           \A e \in Devices : disk'[e] = disk[e] \/ disk'[e] = store[e]
    PROVE  Backed'
<1>1. /\ \A i : Issued(i)' <=> Issued(i)
      /\ \A e, i : Creates(e, i)' <=> Creates(e, i)
  BY CaseFixed, Zenon DEF Issued, Creates
<1>2. ASSUME NEW e \in Devices, NEW i \in DOMAIN (store'[e]) PROVE Lists(e, i, store[e][i])'
  BY <1>1, <1>2 DEF RecordInv, Backed, Lists
<1>3. ASSUME NEW e \in Devices, NEW i \in DOMAIN (disk'[e]) PROVE Lists(e, i, disk[e][i])'
  BY <1>1, <1>3 DEF RecordInv, Backed, Lists
<1> QED BY <1>2, <1>3, Zenon DEF Backed

\* The same for what is hosted, handed out or linked.
LEMMA VouchedKept ==
    ASSUME RecordInv, UNCHANGED <<case, record>>,
           \A d \in Devices :
              /\ node'[d].hosted \subseteq node[d].hosted \cup record[d]
              /\ \A w \in node'[d].writers : w \in node[d].writers \/ (IsLink(w.call) => Issued(Of(w.call))),
           \A c \in Calls :
              /\ calls'[c].pc = "confirm" => calls[c].pc = "confirm" \/ Of(c) \in record[At(c)]
              /\ IsLink(c) /\ calls'[c].pc # "idle" => calls[c].pc # "idle" \/ Issued(Of(c)),
           \A s \in Secrets : handed'[s].by # Nobody =>
              \/ handed[s].by # Nobody /\ handed'[s].of = handed[s].of
              \/ Issued(handed'[s].of)
    PROVE  Vouched'
<1>1. \A i : Issued(i)' <=> Issued(i)
  BY Zenon DEF Issued
<1> QED BY <1>1, CaseFixed, Zenon DEF RecordInv, Vouched

\* Steps of a call.
LEMMA CallVouched ==
    ASSUME Base, OwnersInv, RecordInv, NEW c \in Calls,
           CallActs(c) \/ CallTurns(c)
    PROVE  Vouched'
<1> USE CallFacts DEF Base, NodesOK, NodeFields, CallsOK, CallFields
<1>CreatePms. CASE CreatePms(c)
  BY <1>CreatePms, VouchedKept, ZenonT(40) DEF CreatePms
<1>CreateArms. CASE CreateArms(c)
  BY <1>CreateArms, VouchedKept DEF CreateArms, Governed, Goes
<1>Recorded. CASE Recorded(c)
  BY <1>Recorded, VouchedKept DEF Recorded, Admitted, Goes, OwnersInv, CallsHold
<1>RecordFails. CASE RecordFails(c)
  BY <1>RecordFails, VouchedKept DEF RecordFails, Goes
<1>Dials. CASE Dials(c)
  BY <1>Dials, VouchedKept DEF Dials, Goes
<1>Unanswered. CASE Unanswered(c)
  BY <1>Unanswered, VouchedKept, Zenon DEF Unanswered, Goes
<1>LinkProvisions. CASE LinkProvisions(c)
  <2>1. CASE node' = [node EXCEPT ![At(c)] = [Provisioned(@, Of(c)) EXCEPT !.lock = c]]
    BY <1>LinkProvisions, <2>1, VouchedKept DEF LinkProvisions, Provisioned, Goes
  <2>2. CASE UNCHANGED node
    BY <1>LinkProvisions, <2>2, VouchedKept DEF LinkProvisions, Goes
  <2> QED BY <1>LinkProvisions, <2>1, <2>2, Zenon DEF LinkProvisions
<1>LinkImports. CASE LinkImports(c)
  BY <1>LinkImports, VouchedKept DEF LinkImports
<1>LinkArms. CASE LinkArms(c)
  BY <1>LinkArms, VouchedKept DEF LinkArms, Governed, Goes
<1>LinkTimesOut. CASE LinkTimesOut(c)
  BY <1>LinkTimesOut, VouchedKept DEF LinkTimesOut, Goes
<1>LinkConfirms. CASE LinkConfirms(c)
  BY <1>LinkConfirms, VouchedKept DEF LinkConfirms, Goes
<1>Releases. CASE Releases(c)
  BY <1>Releases, VouchedKept DEF Releases, Goes
<1>Commits. CASE Commits(c)
  <2>1. IsLink(c) => Issued(Of(c))
    BY <1>Commits, Zenon DEF Commits, RecordInv, Vouched
  <2> QED BY <1>Commits, <2>1, VouchedKept DEF Commits
<1>RollsBack. CASE RollsBack(c)
  BY <1>RollsBack, VouchedKept DEF RollsBack, Unhosted, Goes
<1>LinkCatchesUp. CASE LinkCatchesUp(c)
  <2>1. /\ calls[c].pc = "catch_up" /\ calls' = [calls EXCEPT ![c].pc = "commit"]
        /\ UNCHANGED <<case, record, node, handed>>
    BY <1>LinkCatchesUp, Zenon DEF LinkCatchesUp, Goes
  <2> QED BY <2>1, VouchedKept
<1>CreateBegins. CASE CreateBegins(c)
  BY <1>CreateBegins, VouchedKept DEF CreateBegins, Provisioned, IdleCall
<1>CreateFails. CASE CreateFails(c)
  BY <1>CreateFails, VouchedKept, Zenon DEF CreateFails, Goes
<1>LinkFails. CASE LinkFails(c)
  BY <1>LinkFails, VouchedKept DEF LinkFails, Goes
<1>LinkGivesUp. CASE LinkGivesUp(c)
  BY <1>LinkGivesUp, VouchedKept, Zenon DEF LinkGivesUp, Goes
<1>Cancels. CASE Cancels(c)
  BY <1>Cancels, VouchedKept DEF Cancels, Goes
<1>LinkBegins. CASE \E s \in Secrets : LinkBegins(c, s)
  <2>1. PICK s \in Secrets : LinkBegins(c, s)
    BY <1>LinkBegins, Zenon
  <2>2. handed[s].by # Nobody /\ handed[s].of = Of(c)
    BY <2>1, Zenon DEF LinkBegins, IsLink, Inviter
  <2>3. Issued(Of(c))
    BY <2>2 DEF RecordInv, Vouched
  <2>4. /\ \A d \in Devices :
              node'[d].hosted = node[d].hosted /\ node'[d].writers = node[d].writers
        /\ UNCHANGED <<case, record, handed>>
    BY <2>1 DEF LinkBegins
  <2>5. \A b \in Calls : b # c => calls'[b] = calls[b]
    BY <2>1, Zenon DEF LinkBegins
  <2>6. calls'[c].pc = "dial"
    BY <2>1, Zenon DEF LinkBegins, IdleCall
  <2> QED BY <2>3, <2>4, <2>5, <2>6, VouchedKept, Zenon
<1> QED BY <1>CreatePms, <1>CreateArms, <1>Recorded, <1>RecordFails, <1>Dials, <1>Unanswered,
           <1>LinkProvisions, <1>LinkImports, <1>LinkArms, <1>LinkTimesOut, <1>LinkConfirms,
           <1>Releases, <1>Commits, <1>RollsBack, <1>LinkCatchesUp, <1>CreateBegins,
           <1>CreateFails, <1>LinkFails, <1>LinkGivesUp, <1>Cancels, <1>LinkBegins, Zenon DEF CallActs, CallTurns


\* A detached undo.
LEMMA TaskUndoesVouched ==
    ASSUME Base, RecordInv, NEW e \in Devices, NEW t \in node[e].tasks, TaskUndoes(e, t)
    PROVE  Vouched'
<1>1. \A d \in Devices :
         node'[d].hosted = node[d].hosted /\ node'[d].writers = node[d].writers
  BY Zenon DEF TaskUndoes, Unhosted, Base, NodesOK, NodeFields
<1>2. UNCHANGED <<case, record, calls, handed>>
  BY Zenon DEF TaskUndoes
<1> QED BY <1>1, <1>2, VouchedKept, Zenon

\* An invite is minted for an identity hosted here, and so recorded.
LEMMA MintVouched ==
    ASSUME Base, RecordInv, NEW e \in Devices, NEW i \in Identities, MintInvite(e, i)
    PROVE  Vouched'
<1>1. Issued(i)
  BY Zenon DEF MintInvite, RecordInv, Vouched, Issued
<1>2. \A d \in Devices :
         node'[d].hosted = node[d].hosted /\ node'[d].writers = node[d].writers
  BY Zenon DEF MintInvite, Base, NodesOK, NodeFields
<1>3. \A s \in Secrets :
         (handed'[s].by = handed[s].by /\ handed'[s].of = handed[s].of) \/ handed'[s].of = i
  BY Zenon DEF MintInvite, Base, TablesOK
<1>4. UNCHANGED <<case, record, calls>>
  BY Zenon DEF MintInvite
<1> QED BY <1>1, <1>2, <1>3, <1>4, VouchedKept, Zenon

\* What is left but for a call's steps and a writer's end.
NodeActs ==
    \/ \E x \in serving : ServingActs(x)
    \/ \E d \in Devices : \E t \in node[d].tasks : TaskUndoes(d, t) \/ TaskReleases(d, t)
    \/ \E d \in Devices : DeviceActs(d)
    \/ \E d \in Devices, i \in Identities : Sweeps(d, i) \/ Recovers(d, i) \/ MintInvite(d, i)
    \/ \E d \in Devices, s \in Secrets : Lapses(d, s)
    \/ \E d, e \in Devices, i \in Identities : Exchanges(d, e, i)
    \/ \E d \in Devices : \E i \in DOMAIN store[d] : Filed(d, i)
    \/ UNCHANGED hostCore

LEMMA NodeVouched ==
    ASSUME Base, OwnersInv, RecordInv,
           NodeActs
    PROVE  Vouched'
<1> USE CallFacts DEF Base, NodesOK, NodeFields, CallsOK, CallFields, TablesOK
<1>Enters. ASSUME NEW x \in serving, Enters(x) PROVE Vouched'
  BY <1>Enters, VouchedKept, ZenonT(40) DEF Enters
<1>Replies. ASSUME NEW x \in serving, Replies(x) PROVE Vouched'
  BY <1>Replies, VouchedKept DEF Replies
<1>MarksUsed. ASSUME NEW x \in serving, MarksUsed(x) PROVE Vouched'
  BY <1>MarksUsed, VouchedKept DEF MarksUsed
<1>Leaves. ASSUME NEW x \in serving, Leaves(x) PROVE Vouched'
  BY <1>Leaves, VouchedKept, Zenon DEF Leaves
<1>Burns. ASSUME NEW x \in serving, Burns(x) PROVE Vouched'
  <2>1. /\ \A d \in Devices :
              node'[d].hosted = node[d].hosted /\ node'[d].writers = node[d].writers
        /\ UNCHANGED <<case, record, calls, handed>>
    <3> DEFINE burned == Burned(node[x.at].invites, x.secret)
    <3>1. node' = node \/ node' = [node EXCEPT ![x.at].invites = burned]
      BY <1>Burns, Zenon DEF Burns
    <3>2. UNCHANGED <<case, record, calls, handed>>
      BY <1>Burns, Zenon DEF Burns
    <3> HIDE DEF burned
    <3> QED BY <3>1, <3>2
  <2> QED BY <2>1, VouchedKept, Zenon
<1>TaskUndoes. ASSUME NEW d \in Devices, NEW t \in node[d].tasks, TaskUndoes(d, t) PROVE Vouched'
  BY <1>TaskUndoes, TaskUndoesVouched, Zenon
<1>TaskReleases. ASSUME NEW d \in Devices, NEW t \in node[d].tasks, TaskReleases(d, t) PROVE Vouched'
  BY <1>TaskReleases, VouchedKept DEF TaskReleases
<1>Sweeps. ASSUME NEW d \in Devices, NEW i \in Identities, Sweeps(d, i) PROVE Vouched'
  BY <1>Sweeps, VouchedKept, Zenon DEF Sweeps
<1>Recovers. ASSUME NEW d \in Devices, NEW i \in Identities, Recovers(d, i) PROVE Vouched'
  BY <1>Recovers, VouchedKept DEF Recovers, Governed
<1>MintInvite. ASSUME NEW d \in Devices, NEW i \in Identities, MintInvite(d, i) PROVE Vouched'
  BY <1>MintInvite, MintVouched, Zenon
<1>Lapses. ASSUME NEW d \in Devices, NEW s \in Secrets, Lapses(d, s) PROVE Vouched'
  BY <1>Lapses, VouchedKept DEF Lapses
<1>Ready. ASSUME NEW d \in Devices, Ready(d) PROVE Vouched'
  BY <1>Ready, VouchedKept DEF Ready, Recoverable
<1>Drains. ASSUME NEW d \in Devices, Drains(d) PROVE Vouched'
  BY <1>Drains, VouchedKept DEF Drains
<1>Stops. ASSUME NEW d \in Devices, Stops(d) PROVE Vouched'
  BY <1>Stops, VouchedKept, Zenon DEF Stops, Stopped, Off
<1>StoreSettles. ASSUME NEW d \in Devices, StoreSettles(d) PROVE Vouched'
  BY <1>StoreSettles, VouchedKept, Zenon DEF StoreSettles
<1>Starts. ASSUME NEW d \in Devices, Starts(d) PROVE Vouched'
  BY <1>Starts, VouchedKept, Zenon DEF Starts, Assembled, Off
<1>ShutsDown. ASSUME NEW d \in Devices, ShutsDown(d) PROVE Vouched'
  BY <1>ShutsDown, VouchedKept DEF ShutsDown
<1>StartFails. ASSUME NEW d \in Devices, StartFails(d) PROVE Vouched'
  BY <1>StartFails, VouchedKept, Zenon DEF StartFails, Stopped, Off
<1>Crashes. ASSUME NEW d \in Devices, Crashes(d) PROVE Vouched'
  BY <1>Crashes, VouchedKept DEF Crashes, Off
<1>Exchanges. ASSUME NEW d \in Devices, NEW e \in Devices, NEW i \in Identities, Exchanges(d, e, i) PROVE Vouched'
  BY <1>Exchanges, VouchedKept, Zenon DEF Exchanges
<1>Filed. ASSUME NEW d \in Devices, NEW i \in DOMAIN store[d], Filed(d, i) PROVE Vouched'
  BY <1>Filed, VouchedKept, Zenon DEF Filed
<1>Aside. CASE UNCHANGED hostCore
  BY <1>Aside, VouchedKept, Zenon DEF hostCore
<1> QED BY <1>Enters, <1>Replies, <1>MarksUsed, <1>Leaves, <1>Burns, <1>TaskUndoes,
           <1>TaskReleases, <1>Sweeps, <1>Recovers, <1>MintInvite, <1>Lapses, <1>Ready,
           <1>Drains, <1>Stops, <1>StoreSettles, <1>Starts, <1>ShutsDown, <1>StartFails,
           <1>Crashes, <1>Exchanges, <1>Filed, <1>Aside, Zenon DEF NodeActs, ServingActs, DeviceActs

\* One replica written, the rest left alone.
LEMMA PutBacked ==
    ASSUME Base, RecordInv, UNCHANGED <<case, record, disk>>,
           NEW d \in Devices, NEW i, NEW pms, store' = [store EXCEPT ![d][i] = pms],
           i \in DOMAIN store[d] => Lists(d, i, pms)
    PROVE  Backed'
<1>1. \A e \in Devices : /\ DOMAIN (store'[e]) = DOMAIN store[e]
                         /\ \A j \in DOMAIN store[e] :
                               /\ e # d \/ j # i => store'[e][j] = store[e][j]
                               /\ e = d /\ j = i => store'[e][j] = pms
  BY Zenon DEF Base, TablesOK
<1> QED BY <1>1, BackedKept, Zenon

\* What two replicas list between them may be listed on both.
LEMMA MergedLists ==
    ASSUME Base, RecordInv, NEW d \in Devices, NEW e \in Devices, NEW i,
           i \in DOMAIN store[d], i \in DOMAIN store[e],
           NEW pms, DOMAIN pms = PmsFields,
           pms.devices = store[d][i].devices \cup store[e][i].devices
    PROVE  Lists(d, i, pms) /\ Lists(e, i, pms)
<1>1. Lists(d, i, store[d][i]) /\ Lists(e, i, store[e][i])
  BY Zenon DEF RecordInv, Backed
<1>2. ~Issued(i) => d = e
  BY <1>1, OneCreates, Zenon DEF Lists, Base
<1> QED BY <1>1, <1>2, Zenon DEF Lists

\* A confirmation of a device whose hosting is recorded.
LEMMA ConfirmingLists ==
    ASSUME RecordInv, NEW d \in Devices, NEW i, i \in DOMAIN store[d], i \in record[d]
    PROVE  Lists(d, i, Confirming(store[d][i], i, d))
<1>1. Lists(d, i, store[d][i]) /\ Issued(i)
  BY Zenon DEF RecordInv, Backed, Issued
<1> DEFINE was == store[d][i]
           stamp == Stamp(Now(i, d), FALSE)
           pms == [was EXCEPT !.pending[d] = stamp, !.devices = @ \cup {d}]
<1>2. WithConfirmed(was, d, Now(i, d)) = pms
  BY Zenon DEF WithConfirmed
<1> HIDE DEF stamp
<1>3. DOMAIN pms = PmsFields /\ pms.devices = was.devices \cup {d}
  BY <1>1, Zenon DEF Lists, PmsFields
<1>4. Lists(d, i, pms)
  BY <1>1, <1>3, Zenon DEF Lists
<1> QED BY <1>1, <1>2, <1>4, Zenon DEF Confirming

\* The PMS of a create lists the device that creates.
LEMMA CreatePmsBacked ==
    ASSUME Base, OwnersInv, RecordInv, NEW c \in Calls, CreatePms(c) PROVE Backed'
<1> DEFINE d == At(c)
           pms == CreatedPms(d)
<1>1. case \in DOMAIN Cases /\ d \in Devices /\ ~IsLink(c) /\ calls[c].pc = "create"
  BY CallFacts, Zenon DEF Base, CallsOK, CreateOnly, CreatePms
<1>2. ~Issued(Of(c))
  BY <1>1, Zenon DEF OwnersInv, Unshared, Young, UnsharedOf, Issued
<1>3. DOMAIN pms = PmsFields /\ pms.devices = {d}
  BY Zenon DEF CreatedPms, WithConfirmed, EmptyPms, PmsFields
<1> HIDE DEF pms
<1>4. Lists(d, Of(c), pms)
  BY <1>1, <1>2, <1>3, Zenon DEF Lists, Creates
<1>5. \A e \in Devices : \A j \in DOMAIN (store'[e]) :
         \/ e = d /\ j = Of(c) /\ store'[e][j] = pms
         \/ j \in DOMAIN store[e] /\ store'[e][j] = store[e][j]
  <2>1. store' = [store EXCEPT ![d] = Holding(@, Of(c), pms)]
    BY Zenon DEF CreatePms, pms
  <2> QED BY <1>1, <2>1, Zenon DEF Holding, Base, TablesOK
<1>6. UNCHANGED <<case, record, disk>>
  BY Zenon DEF CreatePms
<1> QED BY <1>4, <1>5, <1>6, BackedKept, Zenon

\* An imported ticket is of an identity that is hosted somewhere.
LEMMA LinkImportsBacked ==
    ASSUME Base, OwnersInv, RecordInv, NEW c \in Calls, LinkImports(c) PROVE Backed'
<1> DEFINE d == At(c)
           i == Of(c)
<1>1. case \in DOMAIN Cases /\ d \in Devices /\ IsLink(c) /\ calls[c].pc = "import"
  BY CallFacts, Zenon DEF Base, CallsOK, LinkOnly, LinkImports
<1>2. Issued(i)
  BY <1>1, Zenon DEF RecordInv, Vouched
<1>3. Lists(d, i, EmptyPms)
  BY <1>2, Zenon DEF Lists, EmptyPms, PmsFields
<1>4. \A e \in Devices : \A j \in DOMAIN (store'[e]) :
         \/ e = d /\ j = i /\ store'[e][j] = EmptyPms
         \/ j \in DOMAIN store[e] /\ store'[e][j] = store[e][j]
  <2>1. CASE i \in DOMAIN store[d]
    <3>1. store' = [store EXCEPT ![d] = Holding(@, i, store[d][i])]
      BY <2>1, Zenon DEF LinkImports, Imported
    <3> QED BY <1>1, <2>1, <3>1, Zenon DEF Holding, Base, TablesOK
  <2>2. CASE i \notin DOMAIN store[d]
    <3>1. store' = [store EXCEPT ![d] = Holding(@, i, EmptyPms)]
      BY <2>2, Zenon DEF LinkImports, Imported
    <3> QED BY <1>1, <2>2, <3>1, Zenon DEF Holding, Base, TablesOK
  <2> QED BY <2>1, <2>2, Zenon
<1>5. UNCHANGED <<case, record, disk>>
  BY Zenon DEF LinkImports
<1> QED BY <1>3, <1>4, <1>5, BackedKept, Zenon

\* A session between two replicas leaves both with what either lists.
LEMMA MeetBacked ==
    ASSUME Base, RecordInv, UNCHANGED <<case, record, disk>>,
           NEW d \in Devices, NEW e \in Devices, NEW i, NEW near, NEW far,
           i \in DOMAIN store[d], i \in DOMAIN store[e],
           DOMAIN near = PmsFields, DOMAIN far = PmsFields,
           near.devices = store[d][i].devices \cup store[e][i].devices,
           far.devices = store[d][i].devices \cup store[e][i].devices,
           store' = [store EXCEPT ![d][i] = near, ![e][i] = far]
    PROVE  Backed'
<1>1. /\ Lists(d, i, near) /\ Lists(e, i, near)
      /\ Lists(d, i, far) /\ Lists(e, i, far)
  BY MergedLists, Zenon
<1>2. \A f \in Devices : /\ DOMAIN (store'[f]) = DOMAIN store[f]
                         /\ \A j \in DOMAIN store[f] :
                               \/ store'[f][j] = store[f][j]
                               \/ f \in {d, e} /\ j = i /\ store'[f][j] \in {near, far}
  BY Zenon DEF Base, TablesOK
<1> QED BY <1>1, <1>2, BackedKept, Zenon

LEMMA MergedDevices ==
    ASSUME NEW a, NEW b
    PROVE  DOMAIN Merged(a, b) = PmsFields /\ Merged(a, b).devices = a.devices \cup b.devices
BY Zenon DEF Merged, PmsFields

LEMMA CaughtUpDevices ==
    ASSUME NEW met, DOMAIN met = PmsFields, NEW gone, NEW i, NEW d
    PROVE  DOMAIN CaughtUp(met, gone, i, d) = PmsFields /\ CaughtUp(met, gone, i, d).devices = met.devices
<1> DEFINE kept == [n \in Devices |-> IF n \in gone THEN Stamp(Now(i, n), FALSE) ELSE met.pending[n]]
<1>1. CaughtUp(met, gone, i, d) = [met EXCEPT !.pending = kept]
  BY Zenon DEF CaughtUp, WithoutStale
<1> HIDE DEF kept
<1> QED BY <1>1, Zenon DEF PmsFields

LEMMA CatchesUpBacked ==
    ASSUME Base, OwnersInv, RecordInv, NEW c \in Calls, LinkCatchesUp(c) PROVE Backed'
<1> DEFINE d == At(c)
           e == Inviter(c)
           i == Of(c)
           met == Merged(store[d][i], store[e][i])
<1>1. d \in Devices /\ e \in Devices
  BY CallFacts, Zenon DEF Base, CallsOK, LinkOnly, LinkCatchesUp
<1>2. i \in DOMAIN store[d] /\ i \in DOMAIN store[e] /\ UNCHANGED <<case, record, disk>>
  BY Zenon DEF LinkCatchesUp, Armed
<1>3. PICK gone : store' = [store EXCEPT ![d][i] = CaughtUp(met, gone, i, d), ![e][i] = met]
  BY Zenon DEF LinkCatchesUp
<1>4. /\ DOMAIN met = PmsFields /\ met.devices = store[d][i].devices \cup store[e][i].devices
  BY MergedDevices, Zenon
<1> DEFINE near == CaughtUp(met, gone, i, d)
<1> HIDE DEF met
<1>5. DOMAIN near = PmsFields /\ near.devices = met.devices
  BY <1>4, CaughtUpDevices
<1> HIDE DEF near, d, e, i
<1>6. store' = [store EXCEPT ![d][i] = near, ![e][i] = met]
  BY <1>3, Zenon DEF near
<1> QED BY <1>1, <1>2, <1>4, <1>5, <1>6, MeetBacked, Zenon

LEMMA ExchangesBacked ==
    ASSUME Base, RecordInv, NEW d \in Devices, NEW e \in Devices, NEW i \in Identities,
           Exchanges(d, e, i)
    PROVE  Backed'
<1> DEFINE met == Merged(store[d][i], store[e][i])
<1>1. /\ i \in DOMAIN store[d] /\ i \in DOMAIN store[e] /\ UNCHANGED <<case, record, disk>>
      /\ store' = [store EXCEPT ![d][i] = met, ![e][i] = met]
  BY Zenon DEF Exchanges, Armed
<1>2. /\ DOMAIN met = PmsFields /\ met.devices = store[d][i].devices \cup store[e][i].devices
  BY MergedDevices, Zenon
<1> HIDE DEF met
<1> QED BY <1>1, <1>2, MeetBacked, Zenon

\* The link that confirms, and the armer's sweep.
LEMMA ConfirmsBacked ==
    ASSUME Base, RecordInv,
           \/ \E c \in Calls : LinkConfirms(c)
           \/ \E d \in Devices, i \in Identities : Sweeps(d, i)
    PROVE  Backed'
<1>0. UNCHANGED <<case, record, disk>>
  BY Zenon DEF LinkConfirms, Sweeps
<1>1. ASSUME NEW c \in Calls, LinkConfirms(c) PROVE Backed'
  <2> DEFINE d == At(c)
             i == Of(c)
             pms == Confirming(store[d][i], i, d)
  <2>1. d \in Devices /\ i \in record[d]
    BY <1>1, CallFacts, Zenon DEF LinkConfirms, RecordInv, Vouched, Base
  <2>2. i \in DOMAIN store[d] => Lists(d, i, pms)
    BY <2>1, ConfirmingLists, Zenon
  <2>3. store' = [store EXCEPT ![d][i] = pms] \/ UNCHANGED store
    BY <1>1, Zenon DEF LinkConfirms
  <2> HIDE DEF pms, d, i
  <2>4. CASE UNCHANGED store
    BY <1>0, <2>4, BackedKept, Zenon
  <2>5. CASE store' = [store EXCEPT ![d][i] = pms]
    BY <1>0, <2>1, <2>2, <2>5, PutBacked, Zenon
  <2> QED BY <2>3, <2>4, <2>5, Zenon
<1>2. ASSUME NEW d \in Devices, NEW i \in Identities, Sweeps(d, i) PROVE Backed'
  <2> DEFINE pms == Confirming(store[d][i], i, d)
  <2>1. i \in record[d]
    BY <1>2, Zenon DEF Sweeps, RecordInv, Vouched
  <2>2. i \in DOMAIN store[d] => Lists(d, i, pms)
    BY <2>1, ConfirmingLists, Zenon
  <2>3. store' = [store EXCEPT ![d][i] = pms] \/ UNCHANGED store
    BY <1>2, Zenon DEF Sweeps
  <2> HIDE DEF pms
  <2>4. CASE UNCHANGED store
    BY <1>0, <2>4, BackedKept, Zenon
  <2>5. CASE store' = [store EXCEPT ![d][i] = pms]
    BY <1>0, <2>2, <2>5, PutBacked, Zenon
  <2> QED BY <2>3, <2>4, <2>5, Zenon
<1> QED BY <1>1, <1>2, Zenon

\* The inviter registers the newcomer as pending, which lists nobody.
LEMMA BurnsBacked ==
    ASSUME Base, RecordInv, NEW x \in serving, Burns(x) PROVE Backed'
<1> DEFINE e == x.at
           i == node[e].invites[x.secret].minted_for
           n == At(x.call)
           pms == WithPending(store[e][i], n, Now(i, n))
<1>0. UNCHANGED <<case, record, disk>>
  BY Zenon DEF Burns
<1>1. \/ UNCHANGED store
      \/ i \in node[e].hosted /\ store' = [store EXCEPT ![e][i] = pms]
  BY Zenon DEF Burns
<1>2. e \in Devices /\ i \in DOMAIN store[e] => Lists(e, i, pms)
  <2> DEFINE stamp == Stamp(Now(i, n), TRUE)
  <2>1. pms = [store[e][i] EXCEPT !.pending[n] = stamp]
    BY Zenon DEF WithPending
  <2> HIDE DEF stamp, pms, e, i, n
  <2> SUFFICES ASSUME e \in Devices, i \in DOMAIN store[e] PROVE Lists(e, i, pms)
    BY Zenon
  <2>2. Lists(e, i, store[e][i])
    BY Zenon DEF RecordInv, Backed
  <2>3. DOMAIN pms = PmsFields /\ pms.devices = store[e][i].devices
    BY <2>1, <2>2, Zenon DEF Lists, PmsFields
  <2> QED BY <2>2, <2>3, Zenon DEF Lists
<1> HIDE DEF pms, i, n, e
<1>3. CASE UNCHANGED store
  BY <1>0, <1>3, BackedKept, Zenon
<1>4. CASE e \in Devices /\ store' = [store EXCEPT ![e][i] = pms]
  BY <1>0, <1>2, <1>4, PutBacked, Zenon
<1>5. CASE e \notin Devices /\ store' = [store EXCEPT ![e][i] = pms]
  <2>1. \A d \in Devices : store'[d] = store[d]
    BY <1>5, Zenon DEF Base, TablesOK
  <2> QED BY <1>0, <2>1, BackedKept, Zenon
<1> QED BY <1>1, <1>3, <1>4, <1>5, Zenon

\* An entry's payload, which says nothing of the devices.
LEMMA FiledBacked ==
    ASSUME Base, RecordInv, NEW d \in Devices, NEW i \in DOMAIN store[d], Filed(d, i) PROVE Backed'
<1>1. PICK names : store' = [store EXCEPT ![d][i].payloads = names]
  BY Zenon DEF Filed
<1> DEFINE pms == [store[d][i] EXCEPT !.payloads = names]
<1>2. UNCHANGED <<case, record, disk>>
  BY Zenon DEF Filed
<1>3. store' = [store EXCEPT ![d][i] = pms]
  BY <1>1, Zenon DEF Base, TablesOK
<1>4. Lists(d, i, store[d][i])
  BY Zenon DEF RecordInv, Backed
<1>5. Lists(d, i, pms)
  BY <1>4, Zenon DEF Lists, PmsFields
<1> HIDE DEF pms
<1> QED BY <1>2, <1>3, <1>5, PutBacked, Zenon

\* Roll backs only let replicas go.
LEMMA ForgottenBacked ==
    ASSUME Base, RecordInv, UNCHANGED <<case, record, disk>>,
           NEW d \in Devices, NEW i, NEW pms, store' = [store EXCEPT ![d] = Forgotten(@, i, pms)]
    PROVE  Backed'
<1>1. \A e \in Devices : \A j \in DOMAIN (store'[e]) :
         j \in DOMAIN store[e] /\ store'[e][j] = store[e][j]
  BY Zenon DEF Forgotten, Forgetting, Base, TablesOK
<1> QED BY <1>1, BackedKept, Zenon

\* Every step but a writer's end keeps the replicas backed.
LEMMA CallBacked ==
    ASSUME Base, OwnersInv, RecordInv, NEW c \in Calls,
           CallActs(c) \/ CallTurns(c)
    PROVE  Backed'
<1>1. CASE CreatePms(c) \/ LinkImports(c) \/ LinkCatchesUp(c) \/ LinkConfirms(c)
  BY <1>1, CreatePmsBacked, LinkImportsBacked, CatchesUpBacked, ConfirmsBacked, Zenon DEF LinkCatchesUp
<1>2. CASE RollsBack(c)
  <2>1. /\ store' = [store EXCEPT ![At(c)] = Forgotten(@, Of(c), calls[c].pms)]
        /\ UNCHANGED <<case, record, disk>>
    BY <1>2, Zenon DEF RollsBack
  <2>2. At(c) \in Devices
    BY CallFacts, Zenon DEF Base
  <2> QED BY <2>1, <2>2, ForgottenBacked, Zenon
<1>3. CASE Commits(c)
  <2>1. UNCHANGED <<case, record, store>> /\ disk' = [disk EXCEPT ![At(c)] = store[At(c)]]
    BY <1>3, Zenon DEF Commits, FlushStores
  <2>2. \A e \in Devices : disk'[e] = disk[e] \/ disk'[e] = store[e]
    BY <2>1, Zenon DEF Base, TablesOK
  <2> QED BY <2>1, <2>2, BackedKept, Zenon
<1>4. CASE UNCHANGED <<case, record, store, disk>>
  BY <1>4, BackedKept, Zenon
<1> QED BY <1>1, <1>2, <1>3, <1>4, Zenon
        DEF CallActs, CallTurns, CreateArms, Recorded, RecordFails, Dials, Unanswered, LinkProvisions,
            LinkArms, LinkTimesOut, Releases, CreateBegins, LinkBegins, CreateFails, LinkFails,
            LinkGivesUp, Cancels

LEMMA NodeBacked ==
    ASSUME Base, OwnersInv, RecordInv,
           NodeActs
    PROVE  Backed'
<1>1. ASSUME NEW x \in serving, Burns(x) PROVE Backed'
  BY <1>1, BurnsBacked, Zenon
<1>2. ASSUME NEW d \in Devices, NEW t \in node[d].tasks, TaskUndoes(d, t) PROVE Backed'
  <2>1. /\ store' = [store EXCEPT ![d] = Forgotten(@, t.identity, t.pms)]
        /\ UNCHANGED <<case, record, disk>>
    BY <1>2, Zenon DEF TaskUndoes
  <2> QED BY <2>1, ForgottenBacked, Zenon
<1>3. ASSUME NEW d \in Devices, NEW i \in Identities, Sweeps(d, i) PROVE Backed'
  BY <1>3, ConfirmsBacked, Zenon
<1>4. ASSUME NEW d \in Devices, Stops(d) \/ StoreSettles(d) PROVE Backed'
  <2>1. UNCHANGED <<case, record, store>> /\ disk' = [disk EXCEPT ![d] = store[d]]
    BY <1>4, Zenon DEF Stops, StoreSettles
  <2>2. \A e \in Devices : disk'[e] = disk[e] \/ disk'[e] = store[e]
    BY <2>1, Zenon DEF Base, TablesOK
  <2> QED BY <2>1, <2>2, BackedKept, Zenon
<1>5. ASSUME NEW d \in Devices, Crashes(d) PROVE Backed'
  <2>1. UNCHANGED <<case, record, disk>> /\ store' = [store EXCEPT ![d] = disk[d]]
    BY <1>5, Zenon DEF Crashes
  <2>2. \A e \in Devices : store'[e] = store[e] \/ store'[e] = disk[e]
    BY <2>1, Zenon DEF Base, TablesOK
  <2> QED BY <2>1, <2>2, BackedKept, Zenon
<1>6. ASSUME NEW d \in Devices, NEW e \in Devices, NEW i \in Identities, Exchanges(d, e, i)
      PROVE  Backed'
  BY <1>6, ExchangesBacked, Zenon
<1>7. ASSUME NEW d \in Devices, NEW i \in DOMAIN store[d], Filed(d, i) PROVE Backed'
  BY <1>7, FiledBacked, Zenon
<1>8. CASE UNCHANGED <<case, record, store, disk>>
  BY <1>8, BackedKept, Zenon
<1>9. ASSUME NEW x \in serving, Enters(x) \/ Replies(x) \/ MarksUsed(x) \/ Leaves(x)
      PROVE  UNCHANGED <<case, record, store, disk>>
  BY <1>9, Zenon DEF Enters, Replies, MarksUsed, Leaves
<1>10. ASSUME NEW d \in Devices,
              \/ \E t \in node[d].tasks : TaskReleases(d, t)
              \/ \E i \in Identities : Recovers(d, i) \/ MintInvite(d, i)
              \/ \E s \in Secrets : Lapses(d, s)
              \/ Ready(d) \/ Drains(d) \/ Starts(d) \/ ShutsDown(d) \/ StartFails(d)
       PROVE  UNCHANGED <<case, record, store, disk>>
  BY <1>10, Zenon DEF TaskReleases, Recovers, MintInvite, Lapses, Ready, Drains, Starts, ShutsDown,
               StartFails
<1> QED BY <1>1, <1>2, <1>3, <1>4, <1>5, <1>6, <1>7, <1>8, <1>9, <1>10, Zenon DEF NodeActs, ServingActs, DeviceActs, hostCore

\* A writer's end: what becomes recorded here was listed here alone, or
\* recorded elsewhere before.
LEMMA WriterEndsRecord ==
    ASSUME Base, OwnersInv, RecordInv, NEW e \in Devices, NEW w \in node[e].writers,
           WriterEnds(e, w)
    PROVE  RecordInv'
<1> DEFINE i == Of(w.call)
<1>0. case \in DOMAIN Cases /\ w.call \in Calls /\ At(w.call) = e
  BY Zenon DEF Base, OwnersInv, WritersOK
<1>1. UNCHANGED <<case, store, disk, handed>>
  BY Zenon DEF WriterEnds
<1>2. \A d \in Devices :
         /\ node'[d].hosted = node[d].hosted
         /\ node'[d].writers \subseteq node[d].writers
  BY Zenon DEF WriterEnds, Base, NodesOK, NodeFields
<1>3. \A b \in Calls : calls'[b].pc = calls[b].pc
  BY <1>0 DEF WriterEnds, Base, CallsOK, CallFields
<1>4. \/ record' = record
      \/ /\ \A d \in Devices : d # e => record'[d] = record[d]
         /\ record'[e] = record[e] \cup {i}
  BY Zenon DEF WriterEnds, Written, Base, TablesOK
<1>5. ~Issued(i) => Creates(e, i)
  BY <1>0, Zenon DEF RecordInv, Vouched, Creates
<1>6. /\ \A j : Issued(j) => Issued(j)'
      /\ \A j : j # i /\ Issued(j)' => Issued(j)
      /\ \A d, j : Creates(d, j)' <=> Creates(d, j)
  BY <1>1, <1>4, CaseFixed, Zenon DEF Issued, Creates
<1> HIDE DEF i
<1>7. ASSUME NEW d \in Devices, NEW j, NEW pms, Lists(d, j, pms) PROVE Lists(d, j, pms)'
  <2>1. CASE record' = record
    BY <1>6, <1>7, <2>1, Zenon DEF Lists, Issued
  <2>2. CASE j # i \/ Issued(i)
    BY <1>4, <1>6, <1>7, <2>2, Zenon DEF Lists
  <2>3. CASE j = i /\ ~Issued(i) /\ record' # record
    <3>1. d = e /\ pms.devices \subseteq {e}
      BY <1>0, <1>5, <1>7, <2>3, OneCreates, Zenon DEF Lists
    <3>2. Issued(j)'
      BY <1>4, <2>3, Zenon DEF Issued
    <3> QED BY <1>4, <1>7, <2>3, <3>1, <3>2, Zenon DEF Lists
  <2> QED BY <2>1, <2>2, <2>3, Zenon
<1>8. Backed'
  BY <1>1, <1>7, Zenon DEF RecordInv, Backed
<1>9. Vouched'
  <2>c. /\ Calls' = Calls /\ \A z : At(z)' = At(z) /\ Of(z)' = Of(z) /\ IsLink(z)' = IsLink(z)
        /\ \A z \in Calls : At(z) \in Devices
    BY <1>0, <1>1, CallFacts, CaseFixed, Zenon
  <2>1. Vouched /\ \A d \in Devices : record[d] \subseteq record'[d]
    BY <1>4, Zenon DEF RecordInv
  <2>2. \A d \in Devices : node'[d].hosted \subseteq record'[d]
    BY <1>2, <2>1, Zenon DEF Vouched
  <2>3. \A b \in Calls : calls'[b].pc = "confirm" => Of(b) \in record'[At(b)]
    BY <1>3, <2>c, <2>1, Zenon DEF Vouched
  <2>4. \A b \in Calls : IsLink(b) /\ calls'[b].pc # "idle" => Issued(Of(b))'
    BY <1>3, <1>6, <2>c, <2>1, Zenon DEF Vouched
  <2>5. \A s \in Secrets : handed'[s].by # Nobody => Issued(handed[s].of)'
    BY <1>1, <1>6, <2>1, Zenon DEF Vouched
  <2>6. \A d \in Devices : \A v \in node'[d].writers : IsLink(v.call) => Issued(Of(v.call))'
    BY <1>2, <1>6, <2>c, <2>1, Zenon DEF Vouched
  <2> QED BY <1>1, <2>c, <2>2, <2>3, <2>4, <2>5, <2>6, Zenon DEF Vouched
<1> QED BY <1>8, <1>9, Zenon DEF RecordInv

\* Every step keeps who is listed.
LEMMA RecordStep == Base /\ OwnersInv /\ RecordInv /\ HostStep => RecordInv'
<1> SUFFICES ASSUME Base, OwnersInv, RecordInv, HostStep PROVE RecordInv'
  BY Zenon
<1>1. ASSUME NEW c \in Calls, CallActs(c) \/ CallTurns(c) PROVE RecordInv'
  BY <1>1, CallBacked, CallVouched, Zenon DEF RecordInv
<1>2. ASSUME NEW d \in Devices, NEW w \in node[d].writers, WriterEnds(d, w) PROVE RecordInv'
  BY <1>2, WriterEndsRecord, Zenon
<1>3. CASE NodeActs
  BY <1>3, NodeBacked, NodeVouched, Zenon DEF RecordInv
<1> QED BY <1>1, <1>2, <1>3, Zenon DEF HostStep, DetachedActs, NodeActs

\* At the outset a replica lists the devices that host, and all are recorded.
LEMMA InitRecord == HostInit => RecordInv
<1> SUFFICES ASSUME HostInit PROVE RecordInv
  BY Zenon
<1>0. case \in DOMAIN Cases /\ Setting.hosted \in [Devices -> SUBSET Identities]
  BY CasesAssumption, Zenon DEF HostInit, Setting
<1>1. \A d \in Devices :
         record[d] = Setting.hosted[d] /\ node[d].hosted = Setting.hosted[d] /\ node[d].writers = {}
  BY Zenon DEF HostInit, Off
<1>2. (\A c \in Calls : calls[c].pc = "idle") /\ (\A s \in Secrets : handed[s].by = Nobody)
  BY Zenon DEF HostInit, IdleCall
<1>3. Vouched
  BY <1>1, <1>2, Zenon DEF Vouched
<1>4. \A d \in Devices : /\ DOMAIN store[d] = Setting.hosted[d] /\ disk[d] = store[d]
                         /\ \A i \in Setting.hosted[d] :
                               /\ DOMAIN store[d][i] = PmsFields
                               /\ store[d][i].devices = {e \in Devices : i \in Setting.hosted[e]}
  BY Zenon DEF HostInit, EmptyPms, PmsFields
<1>5. ASSUME NEW d \in Devices, NEW i \in DOMAIN store[d] PROVE Lists(d, i, store[d][i])
  BY <1>1, <1>4, <1>5 DEF Lists, Issued
<1>6. Backed
  BY <1>4, <1>5, Zenon DEF Backed
<1> QED BY <1>3, <1>6, Zenon DEF RecordInv

\* For any devices, calls and faults: a device that another one's replica lists
\* as confirmed has recorded its hosting, so the others never count on one that
\* will not come back with the identity (ensure_own_device_confirmed after the
\* commit point of a link, and from the armer of a hosted identity only).
THEOREM ConfirmedAlwaysRecorded == Spec => []ConfirmedIsRecorded
<1>1. Base /\ RecordInv => ConfirmedIsRecorded
  <2> SUFFICES ASSUME Base, RecordInv, NEW d \in Devices, NEW e \in Devices, NEW i \in Identities,
                      i \in DOMAIN store[e], d # e, d \in store[e][i].devices
               PROVE  i \in record[d]
    BY Zenon DEF ConfirmedIsRecorded
  <2>1. Lists(e, i, store[e][i])
    BY Zenon DEF RecordInv, Backed
  <2> QED BY <2>1, Zenon DEF Lists
<1>2. Init => Base /\ OwnersInv /\ RecordInv
  BY InitBase, InitOwners, InitRecord, Zenon DEF Init
<1>3. Base /\ OwnersInv /\ RecordInv /\ [Next]_vars => (Base /\ OwnersInv /\ RecordInv)'
  BY StepsOfTheHost, BaseStep, OwnersStep, RecordStep, Zenon
<1> QED BY <1>1, <1>2, <1>3, PTL DEF Spec
=============================================================================
