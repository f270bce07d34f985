------------------------------ MODULE TxFetcher ------------------------------
(***************************************************************************)
(* The retrieval of announced transactions (eth/fetcher/tx_fetcher.go):    *)
(* the loop that owns the trackers, the handlers of the peers that hand it *)
(* announcements, deliveries and drops, and its two timers.                *)
(*                                                                         *)
(* The trackers are the fields of f, as in the code.  A map from hashes to *)
(* sets of peers is total, {} standing for no entry.  A request is a       *)
(* sequence of length 0 or 1; one that has timed out has no hashes left.   *)
(* Of time only this is kept: a tick makes what was there before it due.   *)
(* Left out: metrics, and the pool: which hashes are known to it or were   *)
(* too cheap for it, and so are filtered out before, is arbitrary.         *)
(***************************************************************************)
EXTENDS Integers, Sequences, FiniteSets, Functions, FiniteSetsExt

CONSTANTS
  Peers, Hashes, None,
  maxTxAnnounces, maxTxRetrievals,
  MaxInputs   \* bound on what peers send and on drops

ASSUME TxFetcherAssumption ==
  /\ IsFiniteSet(Peers) /\ IsFiniteSet(Hashes) /\ None \notin Peers
  /\ {maxTxAnnounces, maxTxRetrievals} \subseteq Nat \ {0}

VARIABLES
  f,             \* the trackers of the loop
  timers,        \* whether its timers are set
  triggers,      \* fired timers whose signal the loop has not taken yet
  inbox,         \* per peer, what its handler waits to hand over
  drops,         \* peers whose Drop waits
  inputs

vars == <<f, timers, triggers, inbox, drops, inputs>>

Init ==
  /\ f = [waitlist  |-> [h \in Hashes |-> {}], waitdue    |-> {},
          waitslots |-> [p \in Peers |-> {}],  announces  |-> [p \in Peers |-> {}],
          announced |-> [h \in Hashes |-> {}], alternates |-> [h \in Hashes |-> {}],
          fetching  |-> [h \in Hashes |-> None], requests |-> [p \in Peers |-> << >>]]
  /\ timers = [wait |-> FALSE, timeout |-> FALSE] /\ triggers = [wait |-> 0, timeout |-> 0]
  /\ inbox = [p \in Peers |-> << >>] /\ drops = {}
  /\ inputs = 0

-----------------------------------------------------------------------------
(***************************************************************************)
(* The trackers                                                            *)
(***************************************************************************)

Waiting(g)    == {h \in Hashes : g.waitlist[h] # {}}
Requesting(g) == {p \in Peers : g.requests[p] # << >>}

\* A map without the entries of hashes S: from peers to hashes, and from hashes to peers.
Without(m, S) == [p \in Peers |-> m[p] \ S]
Cleared(m, S) == [h \in Hashes |-> IF h \in S THEN {} ELSE m[h]]

\* The hashes of the request of p that nobody else has delivered.
Own(g, p) ==
  IF g.requests[p] = << >> THEN {}
  ELSE Range(g.requests[p][1].hashes) \ g.requests[p][1].stolen

rescheduleWait(t)    == [t EXCEPT !.wait = TRUE]
rescheduleTimeout(t) == [t EXCEPT !.timeout = TRUE]

\* What p can be asked for.
Free(g, p) == {h \in g.announces[p] : g.fetching[h] = None}

\* The elements of S in any order, as a range over a map gives them.
Orders(S) == Injection(1 .. Cardinality(S), S)

\* What the peers are asked for, one after the other: a peer without a request for as many
\* as may be of the hashes that are still free, in any order.
Retrievals(g, order) ==
  {R \in [Range(order) -> UNION {Orders(S) : S \in SUBSET Hashes}] :
     \A i \in DOMAIN order :
       LET taken == UNION {Range(R[order[j]]) : j \in 1 .. i - 1}
           free  == IF g.requests[order[i]] # << >> THEN {} ELSE Free(g, order[i]) \ taken
       IN  /\ Range(R[order[i]]) \subseteq free
           /\ Len(R[order[i]]) = Min({maxTxRetrievals, Cardinality(free)})}

\* The requests R are made, and the peers that announced the hashes kept as alternates.
Request(g, R) ==
  LET from(h) == {p \in DOMAIN R : h \in Range(R[p])}
  IN  [g EXCEPT
        !.fetching   = [h \in Hashes |-> IF from(h) # {} THEN CHOOSE p \in from(h) : TRUE ELSE @[h]],
        !.alternates = [h \in Hashes |-> IF from(h) # {} THEN g.announced[h] ELSE @[h]],
        !.announced  = [h \in Hashes |-> IF from(h) # {} THEN {} ELSE @[h]],
        !.requests   = [p \in Peers |-> IF p \in DOMAIN R /\ R[p] # << >>
                          THEN <<[hashes |-> R[p], stolen |-> {}, due |-> FALSE]>> ELSE @[p]]]

\* The outcomes for peers actives, in any order.
scheduleFetches(g, actives) ==
  {Request(g, R) : R \in UNION {Retrievals(g, order) : order \in Orders(actives)}}

\* Every peer that has announced something.
Announcers(g) == {p \in Peers : g.announces[p] # {}}

\* Retrievals are scheduled; the timer is set with the first request.
Schedule(t, g, actives) ==
  /\ f' \in scheduleFetches(g, actives)
  /\ timers' = IF Requesting(g) = {} /\ Requesting(f') # {} THEN rescheduleTimeout(t) ELSE t

-----------------------------------------------------------------------------
(***************************************************************************)
(* Handlers of the peers                                                   *)
(***************************************************************************)

Notify(p, hs) ==
  /\ inbox[p] = << >> /\ hs # {} /\ inputs < MaxInputs
  /\ inbox' = [inbox EXCEPT ![p] = <<[type |-> "announce", hashes |-> hs]>>]
  /\ inputs' = inputs + 1
  /\ UNCHANGED <<f, timers, triggers, drops>>

\* A reply to a request, with part of what was asked or anything else, or a broadcast.
Enqueue(p, hs, direct) ==
  /\ inbox[p] = << >> /\ (direct \/ hs # {}) /\ inputs < MaxInputs
  /\ inbox' = [inbox EXCEPT ![p] = <<[type |-> "delivery", hashes |-> hs, direct |-> direct]>>]
  /\ inputs' = inputs + 1
  /\ UNCHANGED <<f, timers, triggers, drops>>

\* The peer leaves, or a request could not be sent to it.
Drop(p) ==
  /\ p \notin drops /\ inputs < MaxInputs
  /\ drops' = drops \cup {p} /\ inputs' = inputs + 1
  /\ UNCHANGED <<f, timers, triggers, inbox>>

-----------------------------------------------------------------------------
(***************************************************************************)
(* The loop                                                                *)
(***************************************************************************)

\* The announcement of hashes hs by p, each by the stage that it is in.
Track(g, p, hs) ==
  LET fetched == {h \in hs : g.alternates[h] # {}}
      queued  == {h \in hs \ fetched : g.announced[h] # {}}
      waiting == hs \ (fetched \cup queued)
      with(m, S) == [h \in Hashes |-> IF h \in S THEN m[h] \cup {p} ELSE m[h]]
  IN  [g EXCEPT !.alternates   = with(@, fetched), !.announced = with(@, queued),
                !.announces[p] = @ \cup fetched \cup queued,
                !.waitlist     = with(@, waiting), !.waitslots[p] = @ \cup waiting]

\* The hashes that are kept of an announcement.
Kept(p, hs) ==
  LET used == Cardinality(f.waitslots[p]) + Cardinality(f.announces[p])
      want == used + Cardinality(hs)
  IN  IF used >= maxTxAnnounces THEN {{}}
      ELSE IF want > maxTxAnnounces THEN kSubset(want - maxTxAnnounces, hs)
      ELSE {hs}

Announced(p) ==
  /\ inbox[p] # << >> /\ inbox[p][1].type = "announce"
  /\ inbox' = [inbox EXCEPT ![p] = << >>]
  /\ UNCHANGED <<triggers, drops, inputs>>
  /\ \E kept \in Kept(p, inbox[p][1].hashes) :
     \E g \in {Track(f, p, kept)} :
       LET t == IF Waiting(f) = {} /\ Waiting(g) # {} THEN rescheduleWait(timers) ELSE timers
       IN  IF f.announces[p] = {} /\ g.announces[p] # {} THEN Schedule(t, g, {p})
           ELSE f' = g /\ timers' = t

\* The hashes that have waited long enough go to the queue.
Expired(g) ==
  LET due == g.waitdue
  IN  [g EXCEPT !.announced = [h \in Hashes |-> IF h \in due THEN g.waitlist[h] ELSE @[h]],
                !.announces = [p \in Peers |-> @[p] \cup {h \in due : p \in g.waitlist[h]}],
                !.waitslots = [p \in Peers |-> @[p] \ due],
                !.waitlist  = [h \in Hashes |-> IF h \in due THEN {} ELSE @[h]],
                !.waitdue   = {}]

WaitTrigger ==
  /\ triggers.wait > 0
  /\ triggers' = [triggers EXCEPT !.wait = @ - 1]
  /\ UNCHANGED <<inbox, drops, inputs>>
  /\ \E g \in {Expired(f)} :
       LET t       == IF Waiting(g) # {} THEN rescheduleWait(timers) ELSE timers
           actives == UNION {f.waitlist[h] : h \in f.waitdue}
       IN  Schedule(t, g, actives)

\* Slip: they stay marked as fetched.
RequeuedOnly(g, lost, hs) ==
  [g EXCEPT !.announced  = [h \in Hashes |-> IF h \in hs THEN {p \in g.alternates[h] : h \notin lost[p]}
                                             ELSE @[h]],
            !.alternates = Cleared(@, hs), !.announces = [p \in Peers |-> @[p] \ lost[p]]]

\* Slip: the peers stay among those that have the hashes.
RequeuedForAll(g, lost, hs) ==
  [g EXCEPT !.announced  = [h \in Hashes |-> IF h \in hs THEN g.alternates[h] ELSE @[h]],
            !.alternates = Cleared(@, hs), !.announces = [p \in Peers |-> @[p] \ lost[p]],
            !.fetching   = [h \in Hashes |-> IF h \in hs THEN None ELSE @[h]]]

\* Hashes hs that were fetched go back to the queue, for the alternates that are left: all
\* but the peers that lost them.
Requeued(g, lost, hs) ==
  [g EXCEPT !.announced  = [h \in Hashes |-> IF h \in hs THEN {p \in g.alternates[h] : h \notin lost[p]}
                                             ELSE @[h]],
            !.alternates = Cleared(@, hs), !.announces = [p \in Peers |-> @[p] \ lost[p]],
            !.fetching   = [h \in Hashes |-> IF h \in hs THEN None ELSE @[h]]]

\* Peer p alone has lost the hashes.
Only(p, hs) == [q \in Peers |-> IF q = p THEN hs ELSE {}]

Late(g) == {p \in Requesting(g) : g.requests[p][1].due}

\* A request that timed out is kept without hashes, so that the peer gets no other.
TimedOut(g) ==
  LET lost == [p \in Peers |-> IF p \in Late(g) THEN Own(g, p) ELSE {}]
  IN  [Requeued(g, lost, UNION {lost[p] : p \in Peers}) EXCEPT
         !.requests = [p \in Peers |-> IF p \in Late(g)
                         THEN <<[hashes |-> << >>, stolen |-> {}, due |-> TRUE]>> ELSE @[p]]]

\* Slip: the timer is set again only for requests that can still time out.
TimeoutOnce ==
  /\ triggers.timeout > 0
  /\ triggers' = [triggers EXCEPT !.timeout = @ - 1]
  /\ UNCHANGED <<inbox, drops, inputs>>
  /\ \E g \in {TimedOut(f)} : f' \in scheduleFetches(g, Announcers(g))
  /\ timers' = IF \E p \in Peers : f'.requests[p] # << >> /\ ~f'.requests[p][1].due
                 THEN rescheduleTimeout(timers) ELSE timers

\* Slip: nothing is scheduled.
TimeoutIdle ==
  /\ triggers.timeout > 0
  /\ triggers' = [triggers EXCEPT !.timeout = @ - 1]
  /\ UNCHANGED <<inbox, drops, inputs>>
  /\ timers' = rescheduleTimeout(timers)
  /\ f' = TimedOut(f)

TimeoutTrigger ==
  /\ triggers.timeout > 0
  /\ triggers' = [triggers EXCEPT !.timeout = @ - 1]
  /\ UNCHANGED <<inbox, drops, inputs>>
  /\ timers' = rescheduleTimeout(timers)
  /\ \E g \in {TimedOut(f)} : f' \in scheduleFetches(g, Announcers(g))

\* All traces of delivered hashes go: those that wait, and the others; the request of
\* another peer for one of them is marked.
Untrack(g, p, direct, hs) ==
  LET w == hs \cap Waiting(g)
      r == hs \ w
      stolen(q) == {h \in r : g.fetching[h] = q /\ (q # p \/ ~direct)}
  IN  [g EXCEPT !.waitslots = Without(g.waitslots, w), !.waitlist = Cleared(g.waitlist, w),
                !.waitdue = g.waitdue \ w,
                !.announces = Without(g.announces, r), !.announced = Cleared(g.announced, r),
                !.alternates = Cleared(g.alternates, r),
                !.fetching = [h \in Hashes |-> IF h \in r THEN None ELSE g.fetching[h]],
                !.requests = [q \in Peers |-> IF stolen(q) = {} THEN g.requests[q]
                   ELSE <<[g.requests[q][1] EXCEPT !.stolen = @ \cup stolen(q)]>>]]

\* The request of p is done.  What came before the last delivered hash p does not have, what
\* came after it p may be asked for again.
Answered(g, p, hs) ==
  LET asked   == g.requests[p][1].hashes
      came    == {i \in DOMAIN asked : asked[i] \in hs}
      cutoff  == IF came = {} THEN Len(asked) + 1 ELSE Max(came)
      missing == {asked[i] : i \in 1 .. cutoff - 1} \cap (Own(g, p) \ hs)
      left    == {asked[i] : i \in cutoff .. Len(asked)} \cap (Own(g, p) \ hs)
  IN  [Requeued(g, Only(p, missing), missing \cup left) EXCEPT !.requests[p] = << >>]

Delivered(p) ==
  /\ inbox[p] # << >> /\ inbox[p][1].type = "delivery"
  /\ inbox' = [inbox EXCEPT ![p] = << >>]
  /\ UNCHANGED <<triggers, drops, inputs>>
  /\ \E m \in {inbox[p][1]} :
     \E g \in {Untrack(f, p, m.direct, m.hashes)} :
       IF m.direct /\ g.requests[p] # << >>
         THEN \E x \in {Answered(g, p, m.hashes)} :
                /\ f' \in scheduleFetches(x, Announcers(x))
                /\ timers' = IF Requesting(x) = {} /\ Requesting(f') # {}
                               THEN rescheduleTimeout(timers) ELSE timers
         ELSE f' = g /\ timers' = timers

\* All traces of peer p, except that it stays an alternate of what others are asked for.
Forget(g, p) ==
  LET w   == [h \in Hashes |-> IF h \in g.waitslots[p] THEN g.waitlist[h] \ {p} ELSE g.waitlist[h]]
      r   == Requeued(g, Only(p, Own(g, p)), Own(g, p))
  IN  [r EXCEPT !.waitlist  = w,
                !.waitdue   = {h \in @ : w[h] # {}},
                !.waitslots[p] = {}, !.announces[p] = {}, !.requests[p] = << >>,
                !.announced = [h \in Hashes |-> IF h \in g.announces[p] THEN @[h] \ {p} ELSE @[h]]]

DropPeer(p) ==
  /\ p \in drops
  /\ drops' = drops \ {p}
  /\ UNCHANGED <<triggers, inbox, inputs>>
  /\ \E g \in {Forget(f, p)} :
       LET t == IF f.waitslots[p] # {} /\ Waiting(g) # {} THEN rescheduleWait(timers) ELSE timers
       IN  IF f.requests[p] = << >> THEN f' = g /\ timers' = t
           ELSE f' \in scheduleFetches(g, Announcers(g)) /\ timers' = rescheduleTimeout(t)

-----------------------------------------------------------------------------
(***************************************************************************)
(* Time                                                                    *)
(***************************************************************************)

\* What was there becomes due, and the timers that are set fire.
Tick ==
  /\ UNCHANGED <<inbox, drops, inputs>>
  /\ timers' = [wait |-> FALSE, timeout |-> FALSE]
  /\ triggers' = [k \in DOMAIN timers |-> IF timers[k] THEN triggers[k] + 1 ELSE triggers[k]]
  /\ f' = [f EXCEPT !.waitdue = Waiting(f),
                    !.requests = [p \in Peers |-> IF @[p] = << >> THEN << >>
                                                  ELSE <<[@[p][1] EXCEPT !.due = TRUE]>>]]

\* The loop takes what is due.
Handle == WaitTrigger \/ \E p \in Peers : Announced(p) \/ Delivered(p) \/ DropPeer(p)

Next ==
  \/ \E p \in Peers : \/ Drop(p)
                      \/ \E hs \in SUBSET Hashes :
                           Notify(p, hs) \/ \E direct \in BOOLEAN : Enqueue(p, hs, direct)
  \/ Handle \/ TimeoutTrigger \/ Tick

\* The loop takes what waits for it, in any order, and time passes; peers owe no answer.
Fairness == WF_vars(Handle) /\ WF_vars(TimeoutTrigger) /\ WF_vars(Tick)

Spec == Init /\ [][Next]_vars /\ Fairness

-----------------------------------------------------------------------------
(***************************************************************************)
(* Properties                                                              *)
(***************************************************************************)

RequestType == [hashes : Seq(Hashes), stolen : SUBSET Hashes, due : BOOLEAN]

\* Types.
TypeOK ==
  /\ f.waitlist \in [Hashes -> SUBSET Peers] /\ f.waitslots \in [Peers -> SUBSET Hashes]
  /\ f.announces \in [Peers -> SUBSET Hashes] /\ f.announced \in [Hashes -> SUBSET Peers]
  /\ f.alternates \in [Hashes -> SUBSET Peers] /\ f.fetching \in [Hashes -> Peers \cup {None}]
  /\ f.waitdue \subseteq Waiting(f)
  /\ \A p \in Requesting(f) : f.requests[p][1] \in RequestType
  /\ drops \subseteq Peers /\ triggers \in [{"wait", "timeout"} -> Nat]
  /\ timers \in [{"wait", "timeout"} -> BOOLEAN]

\* As the comment on TxFetcher demands, a hash is in one stage only: it waits, or is queued,
\* or is fetched, and the fetched ones are those with alternates.  The four panics of the
\* loop are for hashes in two stages.
OneStage ==
  \A h \in Hashes :
    /\ f.waitlist[h] # {} => f.announced[h] = {} /\ f.alternates[h] = {} /\ f.fetching[h] = None
    /\ f.announced[h] # {} => f.alternates[h] = {} /\ f.fetching[h] = None
    /\ (f.alternates[h] # {}) = (f.fetching[h] # None)

\* A hash that is fetched is in the request of that peer and of no other, and what a request
\* still waits for is marked as fetched from its peer, whatever others deliver in between:
\* f.requests[origin] is there whenever a delivery marks it.
RequestsRight ==
  /\ \A p \in Requesting(f) : \A h \in Own(f, p) : f.fetching[h] = p
  /\ \A h \in Hashes : f.fetching[h] # None =>
       LET p == f.fetching[h] IN
       /\ f.requests[p] # << >> /\ h \in Own(f, p)
       /\ p \in f.alternates[h] /\ h \in f.announces[p]

\* The indexes by peer agree with those by hash: waitslots is the inverse of waitlist, and
\* what a peer has announced lists the peer as a source, so that it can be scheduled.
IndexesAgree ==
  \A p \in Peers, h \in Hashes :
    /\ h \in f.waitslots[p] <=> p \in f.waitlist[h]
    /\ h \in f.announces[p] => p \in f.announced[h] \cup f.alternates[h]

\* The maps of the fetcher agree on the stage of every hash, on who is asked for it and on
\* who else has it, after every case of the loop.
TrackersAgree == TypeOK /\ OneStage /\ RequestsRight /\ IndexesAgree

\* Sources that are no longer listed under their peer.
Unlisted == {u \in Hashes \X Peers :
               u[2] \in f.announced[u[1]] \cup f.alternates[u[1]] /\ u[1] \notin f.announces[u[2]]}

\* A source is unlisted only when its peer is dropped (while another is asked for the
\* hash): no timeout, reply or broadcast leaves one behind.
UnlistedByDrop ==
  [][\A u \in Unlisted' \ Unlisted : u[2] \in drops \ drops']_vars

\* No wakeup is lost: while a hash waits the wait timer is set or has fired, and while a
\* request is out, or an idle peer could be asked for something, the timeout timer.
TimersSet ==
  /\ Waiting(f) # {} => timers.wait \/ triggers.wait > 0
  /\ Requesting(f) # {} \/ (\E p \in Peers : Free(f, p) # {}) =>
       timers.timeout \/ triggers.timeout > 0

\* The request of p has timed out.
Dangling(p) == f.requests[p] # << >> /\ f.requests[p][1].hashes = << >>

\* What p has announced is resolved: it comes, from whomever, or p is asked for it and does
\* not answer, whatever the peers that are asked before do.
ResolvedFor(p, h) ==
  (h \in f.waitslots[p] \cup f.announces[p])
    ~> (h \notin f.waitslots[p] \cup f.announces[p] \/ Dangling(p))

=============================================================================
