------------------------------ MODULE Delivery ------------------------------
(***************************************************************************)
(* How what a device writes of a pod finds its way: the contacts of the      *)
(* stores and their swarms (Contacts over Swarm), and the identities of one   *)
(* node beside one another (CoLocated).                                       *)
(***************************************************************************)
EXTENDS Contacts, CoLocated

vars == <<contactVars, coVars>>

Init == ContactsInit /\ CoInit(Setting.co)

Runs(t) ==
    \/ ReadsView(t) \/ ComputesContacts(t)
    \/ StatesMembership(t) \/ StatesRecords(t)
    \/ AsksStore(t) \/ StartsStore(t) \/ LeavesAgain(t)

\* What goes on by itself once begun.
Steps ==
    \/ \E t \in Tasks : Runs(t)
    \/ JoinsTicketed
    \/ PassDerived \/ OwnDerived \/ WriteReturns
    \/ WatcherWakes \/ WatcherSettles \/ WatcherDerived
    \/ ForgetTurnsOut \/ ForgetLeavesSwarm
    \/ ImportsRecords \/ StartsMembership \/ AwaitsMembership \/ StartsRecords
    \/ \E d \in Dials : DialGoesThrough(d) \/ AcceptEnds(d)
    \/ \E r \in engine.redials : RetryFires(r)
    \/ ActorReads
    \/ \E l \in ended : ActorHearsEnd(l)

\* What the host, the network and the clock do.
Happens ==
    \/ PassRuns
    \/ OwnDeviceListed \/ WritesMembership \/ PodForgotten \/ ImportBegins
    \/ \E t \in Tasks : DerivationFails(t)
    \/ \E d \in Dials : DialFails(d) \/ DialMisses(d) \/ Accepts(d)
    \/ \E s \in Stores, p \in Peers :
          LoopReportsUp(s, p) \/ LoopReportsDown(s, p) \/ LoopReportsNews(s, p)
    \/ \E s \in Stores : LoopEnds(s)
    \/ EventsLag

CoSteps ==
    \/ \E p \in Pairs :
          \/ OpeningRead(p) \/ HeldRefused(p) \/ SessionAdmitted(p) \/ SessionRefused(p)
          \/ Redials(p) \/ SessionEndsWell(p) \/ AnnouncementOpens(p)
    \/ RequestServed
    \/ PassWeighs \/ PassOpens("m") \/ PassOpens("r")

CoHappens ==
    \/ \E p \in Pairs : Writes(p[1], p[2]) \/ OpeningFails(p) \/ SessionFails(p)
    \/ PassReads

Next ==
    \/ (Steps \/ Happens) /\ UNCHANGED coVars
    \/ (CoSteps \/ CoHappens) /\ UNCHANGED contactVars

Spec == Init /\ [][Next]_vars

\* What each task does next, a pass beginning included.
TaskSteps(t) ==
    \/ Runs(t)
    \/ t = "pass" /\ (PassRuns \/ PassDerived)
    \/ t = "own" /\ OwnDerived
    \/ t = "write" /\ WriteReturns
    \/ t = "watch" /\ (WatcherWakes \/ WatcherSettles \/ WatcherDerived)
    \/ t = "forget" /\ (ForgetTurnsOut \/ ForgetLeavesSwarm)
    \/ t = "start" /\ (JoinsTicketed \/ ImportsRecords \/ StartsMembership \/ AwaitsMembership
                       \/ StartsRecords)

\* Where the passes recur every task goes on, sessions end, and the actor reads what
\* it is sent; a case whose passes are counted owes nothing.
Fairness ==
    /\ \A t \in Tasks : WF_contactVars(Setting.recurring /\ TaskSteps(t))
    /\ \A d \in Dials :
         WF_contactVars(Setting.recurring /\ (DialGoesThrough(d) \/ AcceptEnds(d)))
    /\ WF_contactVars(Setting.recurring
                        /\ (ActorReads \/ \E l \in ended : ActorHearsEnd(l)))

FairSpec == Spec /\ Fairness

-----------------------------------------------------------------------------

\* A peer is a neighbor in a topic only by the word of the subscription the topic
\* holds now: what a receive loop sent before its topic was quit, or left by its
\* own end, makes nobody a neighbor of the next one (GossipState::is_current,
\* forget_topic_neighbors).
NeighborsAreCurrent ==
    \A p \in Peers : \A s \in engine.neighbors[p] :
        /\ engine.active[s] # 0
        /\ \/ <<s, engine.active[s], p>> \in topic
           \/ \E k \in DOMAIN inbox :
                 inbox[k] = [kind |-> "down", store |-> s, peer |-> p, generation |-> engine.active[s]]

\* A retry series toward a neighbor that has not run out is never left without a
\* next try: its own timer is set, or a dial of the pair is running or held, whatever
\* timers of earlier series fire and however the dial ended (RetrySeries,
\* retry_unreached_dial).
UnreachedIsTried ==
    \A d \in Dials :
        LET series == engine.series[d]
        IN d[1] \in engine.syncing /\ series # NoSeries /\ ~series.exhausted =>
             \/ series.armed /\ \E r \in engine.redials : r[1] = d /\ r[3] = series.id
             \/ engine.dialing[d] # <<>>
             \/ IsRunning(engine.slot[d])
             \/ d[1] = "r" /\ engine.held[d[2]] # <<>>

\* The contacts of a store never go back to what an earlier membership view says,
\* however the derivations of watcher, pass, write and start interleave
\* (HostedStack::pod_derivations).
ContactsNeverGoBack ==
    [][\A s \in Stores : tracked[s] # NoDoc /\ tracked'[s] # NoDoc
                            => tracked'[s].view >= tracked[s].view]_vars

\* The pair of co-located identities is left alone by the pass only when there is
\* nothing to reconcile: with no session, request or redial under way, counts that
\* stand where the memo found them mean replicas that hold the same
\* (reconcile_co_located).
QuietIsEqual ==
    /\ memo = Reading
    /\ \A p \in Pairs : session[p].at = "none" /\ serving[p] = "none"
    /\ requests = <<>> /\ redial = {} /\ pass.at = "idle"
    => \A i, j \in Identities : has[i] = has[j]

\* Once the membership view, the devices and the swarm no longer change, the stores'
\* contacts become what the view says and the engine dials by them, a store of the
\* swarm is subscribed, one turned out is not, and a tombstone has been carried to a
\* member (pod_reconcile_pass, watch_pod_membership).
Settles ==
    Setting.recurring =>
      <>[](LET view == View
               done == tomb # NoTomb /\ tomb.converged
               contacts == PodContacts(held, view, done)
           IN /\ \A s \in held : tracked[s].contacts = contacts /\ engine.stated[s] = contacts
              /\ \A s \in held : (tracked[s].strategy = "Swarm") = (engine.active[s] # 0)
              /\ view.departed /\ "r" \notin held => done)
=============================================================================
