--------------------------- MODULE Intake_proofs ---------------------------
(***************************************************************************)
(* Proofs about what comes in and what goes out once: the events of a Buzz  *)
(* relay (BuzzInbound), the updates of a Telegram bot (TelegramPoll), the    *)
(* sends an agent repeats (OutboundDedupe) and the messages held until      *)
(* their sender is approved (ApprovalGate), for any number of each.         *)
(***************************************************************************)
EXTENDS BuzzInbound, TelegramPoll, OutboundDedupe, ApprovalGate,
        FiniteSetTheorems, WellFoundedInduction, TLAPS

-----------------------------------------------------------------------------
(* BuzzInbound: no event is taken twice.                                      *)

RowStatus == {"none", "claimed", "pending", "delivered"}

\* The pollers that await the session for event e.
Handing(e) == {p \in Pollers : dispatching[p] = e /\ p \notin accepted}

\* What may still be handed over: an event that can be claimed counts for one, and so does
\* every hand-over under way.
Claimable(e) == IF rows[e] \in {"none", "pending"} THEN 1 ELSE 0
Balanced(e) == taken[e] + Cardinality(Handing(e)) + Claimable(e) <= 1 + loosened[e]

InboxTypes ==
    /\ rows \in [Events -> RowStatus]
    /\ dispatching = [p \in Pollers |-> dispatching[p]]
    /\ taken \in [Events -> Nat] /\ loosened \in [Events -> Nat]

InboxInv == InboxTypes /\ \A e \in Events : Balanced(e)

\* A hand-over is a poller's, and there are finitely many pollers.
LEMMA HandingIsFinite ==
    \A e : IsFiniteSet(Handing(e)) /\ Cardinality(Handing(e)) \in Nat
  <1> TAKE e
  <1>1. Handing(e) \subseteq Pollers /\ IsFiniteSet(Pollers)
    BY BuzzAssumption DEF Handing
  <1>2. IsFiniteSet(Handing(e))
    BY <1>1, FS_Subset
  <1> QED BY <1>2, FS_CardinalityType

\* The same of the next state.
LEMMA HandingIsFiniteNext ==
    \A e : IsFiniteSet(Handing(e)') /\ Cardinality(Handing(e)') \in Nat
  <1> TAKE e
  <1>1. Handing(e)' \subseteq Pollers /\ IsFiniteSet(Pollers)
    BY BuzzAssumption DEF Handing
  <1>2. IsFiniteSet(Handing(e)')
    BY <1>1, FS_Subset
  <1> QED BY <1>2, FS_CardinalityType

\* A step that begins no hand-over, takes nothing and makes nothing claimable that was not.
LEMMA NothingBegins ==
    ASSUME InboxInv, InboxTypes', NEW e \in Events,
           Handing(e)' \subseteq Handing(e), taken'[e] = taken[e], loosened'[e] >= loosened[e],
           Claimable(e)' <= Claimable(e) + (loosened'[e] - loosened[e])
    PROVE  Balanced(e)'
  <1>1. Cardinality(Handing(e)') <= Cardinality(Handing(e))
    BY HandingIsFinite, FS_Subset
  <1>2. /\ Claimable(e) \in Nat /\ Claimable(e)' \in Nat
        /\ Cardinality(Handing(e)) \in Nat /\ Cardinality(Handing(e)') \in Nat
    BY HandingIsFinite, HandingIsFiniteNext DEF Claimable
  <1>3. Balanced(e)
    BY DEF InboxInv
  <1> QED BY <1>1, <1>2, <1>3 DEF Balanced, InboxInv, InboxTypes

\* Poller p claims event e, or leaves it alone.
LEMMA ClaimsBalanced ==
    ASSUME InboxInv, NEW p \in Pollers, NEW e, NEW replay \in BOOLEAN, Claims(p, e, replay),
           UNCHANGED <<accepted, taken, loosened>>
    PROVE  InboxInv'
  <1>t. InboxTypes /\ \A f \in Events : Balanced(f)
    BY DEF InboxInv
  <1>1. InboxTypes'
    BY <1>t DEF InboxTypes, Claims, RowStatus
  <1>2. CASE UNCHANGED <<rows, dispatching>>
    BY <1>1, <1>2, <1>t DEF InboxInv, Balanced, Handing, Claimable
  <1>3. CASE /\ rows[e] \in {"none", "pending"}
             /\ rows' = [rows EXCEPT ![e] = "claimed"]
             /\ dispatching' = [dispatching EXCEPT ![p] = e]
    <2> SUFFICES ASSUME NEW f \in Events PROVE Balanced(f)'
      BY <1>1 DEF InboxInv
    <2>1. CASE f # e
      <3>1. Handing(f)' \subseteq Handing(f) /\ Claimable(f)' = Claimable(f)
        BY <1>3, <1>t, <2>1 DEF InboxTypes, Handing, Claimable
      <3> QED BY <3>1, <1>1, <1>t, NothingBegins DEF InboxTypes, Claimable
    <2>2. CASE f = e
      <3>1. Handing(f)' \subseteq Handing(f) \cup {p}
        BY <1>3, <1>t, <2>2 DEF InboxTypes, Handing
      <3>2. Cardinality(Handing(f)') <= Cardinality(Handing(f)) + 1
        <4>1. /\ IsFiniteSet(Handing(f) \cup {p})
              /\ Cardinality(Handing(f) \cup {p}) <= Cardinality(Handing(f)) + 1
          <5>1. IsFiniteSet(Handing(f)) /\ Cardinality(Handing(f)) \in Nat
            BY HandingIsFinite
          <5>2. /\ IsFiniteSet(Handing(f) \cup {p})
                /\ Cardinality(Handing(f) \cup {p})
                     = IF p \in Handing(f) THEN Cardinality(Handing(f))
                       ELSE Cardinality(Handing(f)) + 1
            BY <5>1, FS_AddElement
          <5> QED BY <5>1, <5>2
        <4>2. Cardinality(Handing(f)') <= Cardinality(Handing(f) \cup {p})
          BY <3>1, <4>1, FS_Subset
        <4> QED BY <4>1, <4>2, HandingIsFinite, HandingIsFiniteNext, FS_CardinalityType
      <3>3. Claimable(f) = 1 /\ Claimable(f)' = 0
        BY <1>3, <1>t, <2>2 DEF InboxTypes, Claimable
      <3>4. Cardinality(Handing(f)) \in Nat /\ Cardinality(Handing(f)') \in Nat
        BY HandingIsFinite, HandingIsFiniteNext
      <3> QED BY <3>2, <3>3, <3>4, <1>t DEF Balanced, InboxTypes
    <2> QED BY <2>1, <2>2
  <1> QED BY <1>2, <1>3 DEF Claims

\* One hand-over ends: it is one less, and may be one event more that was taken, or that
\* can be claimed again.
LEMMA HandOverEnds ==
    ASSUME InboxInv, InboxTypes', NEW p \in Pollers, p \notin accepted,
           NEW e, e = dispatching[p],
           \A f \in Events : Handing(f)' \subseteq Handing(f) \ {p},
           \A f \in Events : loosened'[f] = loosened[f],
           \A f \in Events : f # e => taken'[f] = taken[f] /\ Claimable(f)' = Claimable(f),
           e \in Events => taken'[e] + Claimable(e)' <= taken[e] + Claimable(e) + 1
    PROVE  InboxInv'
  <1> SUFFICES ASSUME NEW f \in Events PROVE Balanced(f)'
    BY DEF InboxInv
  <1>n. /\ Cardinality(Handing(f)) \in Nat /\ Cardinality(Handing(f)') \in Nat
        /\ Claimable(f) \in Nat /\ Claimable(f)' \in Nat
    BY HandingIsFinite, HandingIsFiniteNext DEF Claimable
  <1>1. CASE f # e
    <2>1. Handing(f)' \subseteq Handing(f)
      OBVIOUS
    <2>2. /\ taken'[f] = taken[f] /\ loosened'[f] = loosened[f] /\ loosened[f] \in Nat
          /\ Claimable(f)' = Claimable(f)
      BY <1>1 DEF InboxInv, InboxTypes
    <2>3. /\ loosened'[f] >= loosened[f]
          /\ Claimable(f)' <= Claimable(f) + (loosened'[f] - loosened[f])
      BY <2>2, <1>n
    <2> QED BY <2>1, <2>2, <2>3, NothingBegins
  <1>2. CASE f = e
    <2>1. p \in Handing(f)
      BY <1>2 DEF Handing
    <2>2. Cardinality(Handing(f)') <= Cardinality(Handing(f)) - 1
      <3>1. /\ IsFiniteSet(Handing(f) \ {p})
            /\ Cardinality(Handing(f) \ {p}) = Cardinality(Handing(f)) - 1
        BY <2>1, HandingIsFinite, FS_RemoveElement
      <3>2. Cardinality(Handing(f)') <= Cardinality(Handing(f) \ {p})
        BY <3>1, FS_Subset
      <3> QED BY <3>1, <3>2
    <2>3. Balanced(f) /\ loosened'[f] = loosened[f]
      BY DEF InboxInv
    <2>4. taken[f] \in Nat /\ taken'[f] \in Nat /\ loosened[f] \in Nat
      BY DEF InboxInv, InboxTypes
    <2> QED BY <1>2, <1>n, <2>2, <2>3, <2>4 DEF Balanced
  <1> QED BY <1>1, <1>2

\* The steps around a hand-over.
LEMMA HandOverSteps ==
    ASSUME InboxInv, NEW p \in Pollers,
           HandsOver(p) \/ MarksDelivered(p) \/ Refused(p) \/ MarkFails(p)
    PROVE  InboxInv'
  <1>t. InboxTypes /\ NoEvent \notin Events /\ \A f \in Events : Balanced(f)
    BY BuzzAssumption DEF InboxInv, Events
  <1>1. CASE HandsOver(p)
    <2>1. PICK e : e = dispatching[p]
      OBVIOUS
    <2>2. /\ p \notin accepted /\ accepted' = accepted \cup {p}
          /\ taken' = [taken EXCEPT ![e] = @ + 1]
          /\ UNCHANGED <<rows, dispatching, loosened>>
      BY <1>1, <2>1 DEF HandsOver
    <2>3. taken' \in [Events -> Nat]
      <3>1. CASE e \in Events
        BY <3>1, <2>2, <1>t DEF InboxTypes
      <3>2. CASE e \notin Events
        BY <3>2, <2>2, <1>t DEF InboxTypes
      <3> QED BY <3>1, <3>2
    <2>4. InboxTypes'
      BY <2>2, <2>3, <1>t DEF InboxTypes
    <2>5. /\ \A f \in Events : Handing(f)' \subseteq Handing(f) \ {p}
          /\ \A f \in Events : Claimable(f)' = Claimable(f) /\ loosened'[f] = loosened[f]
      BY <2>2 DEF Handing, Claimable
    <2>6. \A f \in Events : f # e => taken'[f] = taken[f]
      BY <2>2, <1>t DEF InboxTypes
    <2>7. e \in Events => taken'[e] + Claimable(e)' <= taken[e] + Claimable(e) + 1
      <3> SUFFICES ASSUME e \in Events
                   PROVE  taken'[e] + Claimable(e)' <= taken[e] + Claimable(e) + 1
        OBVIOUS
      <3>1. taken'[e] = taken[e] + 1 /\ taken[e] \in Nat /\ Claimable(e)' = Claimable(e)
        BY <2>2, <2>5, <1>t DEF InboxTypes
      <3>2. Claimable(e) \in Nat
        BY DEF Claimable
      <3> QED BY <3>1, <3>2
    <2> QED BY <2>1, <2>2, <2>4, <2>5, <2>6, <2>7, HandOverEnds
  <1>2. CASE Refused(p)
    <2>1. PICK e : e = dispatching[p]
      OBVIOUS
    <2>2. /\ p \notin accepted
          /\ rows' = [rows EXCEPT ![e] = IF @ = "claimed" THEN "pending" ELSE @]
          /\ dispatching' = [dispatching EXCEPT ![p] = NoEvent]
          /\ UNCHANGED <<accepted, taken, loosened>>
      BY <1>2, <2>1 DEF Refused
    <2>3. InboxTypes'
      BY <2>2, <1>t DEF InboxTypes, RowStatus
    <2>4. \A f \in Events : Handing(f)' \subseteq Handing(f) \ {p}
      BY <2>2, <1>t DEF InboxTypes, Handing
    <2>5. /\ \A f \in Events : f # e => Claimable(f)' = Claimable(f)
          /\ e \in Events => Claimable(e)' <= Claimable(e) + 1
      BY <2>2, <1>t DEF InboxTypes, Claimable
    <2>6. e \in Events => taken'[e] + Claimable(e)' <= taken[e] + Claimable(e) + 1
      BY <2>2, <2>5, <1>t DEF InboxTypes, Claimable
    <2> QED BY <2>1, <2>2, <2>3, <2>4, <2>5, <2>6, HandOverEnds
  <1>3. CASE MarksDelivered(p) \/ MarkFails(p)
    <2>1. /\ p \in accepted /\ accepted' = accepted \ {p}
          /\ dispatching' = [dispatching EXCEPT ![p] = NoEvent]
          /\ UNCHANGED <<taken, loosened>>
          /\ \/ UNCHANGED rows
             \/ rows' = [rows EXCEPT ![dispatching[p]] =
                             IF @ \in {"pending", "claimed"} THEN "delivered" ELSE @]
      BY <1>3 DEF MarksDelivered, MarkFails
    <2>2. InboxTypes'
      BY <2>1, <1>t DEF InboxTypes, RowStatus
    <2>3. ASSUME NEW f \in Events PROVE Balanced(f)'
      <3>1. Handing(f)' \subseteq Handing(f) /\ Claimable(f)' <= Claimable(f)
        BY <2>1, <1>t DEF InboxTypes, Handing, Claimable
      <3>2. taken'[f] = taken[f] /\ loosened'[f] = loosened[f] /\ loosened[f] \in Nat
        BY <2>1, <1>t DEF InboxTypes
      <3>3. Claimable(f)' <= Claimable(f) + (loosened'[f] - loosened[f])
        BY <3>1, <3>2 DEF Claimable
      <3> QED BY <2>2, <3>1, <3>2, <3>3, NothingBegins
    <2> QED BY <2>2, <2>3 DEF InboxInv
  <1> QED BY <1>1, <1>2, <1>3

\* Claims are dropped: beside a hand-over by a lease or a policy, with all of them by a crash.
LEMMA ClaimsDropped ==
    ASSUME InboxInv,
           \/ \E e \in Events : LeaseRunsOut(e) \/ HandOverOutlivesLease(e)
           \/ \E channels : PutPolicy(channels)
           \/ Restart
    PROVE  InboxInv'
  <1>t. InboxTypes /\ NoEvent \notin Events
    BY BuzzAssumption DEF InboxInv, Events
  <1>1. /\ InboxTypes'
        /\ \A f \in Events : /\ Handing(f)' \subseteq Handing(f) /\ taken'[f] = taken[f]
                             /\ \/ rows'[f] = rows[f] /\ loosened'[f] = loosened[f]
                                \/ rows[f] = "claimed" /\ loosened'[f] = loosened[f] + 1
                                \/ rows[f] \in {"none", "pending"} /\ loosened'[f] = loosened[f]
    <2>1. CASE \E e \in Events : LeaseRunsOut(e) \/ HandOverOutlivesLease(e)
      <3>1. PICK e \in Events : Unclaimed(e)
        BY <2>1 DEF LeaseRunsOut, HandOverOutlivesLease
      <3> QED BY <3>1, <1>t DEF Unclaimed, InboxTypes, RowStatus, Handing
    <2>2. CASE \E channels : PutPolicy(channels)
      BY <2>2, <1>t DEF PutPolicy, InboxTypes, RowStatus, Handing
    <2>3. CASE Restart
      BY <2>3, <1>t DEF Restart, InboxTypes, RowStatus, Handing
    <2> QED BY <2>1, <2>2, <2>3
  <1>2. ASSUME NEW f \in Events PROVE Balanced(f)'
    <2>1. loosened[f] \in Nat /\ loosened'[f] \in Nat
      BY <1>1, <1>t DEF InboxTypes
    <2>2. /\ loosened'[f] >= loosened[f]
          /\ Claimable(f)' <= Claimable(f) + (loosened'[f] - loosened[f])
      BY <1>1, <2>1 DEF Claimable
    <2> QED BY <1>1, <2>2, NothingBegins
  <1> QED BY <1>1, <1>2 DEF InboxInv

\* What neither claims nor hands over does not matter.
LEMMA InboxQuiet ==
    ASSUME InboxInv, UNCHANGED <<rows, dispatching, accepted, taken, loosened>>
    PROVE  InboxInv'
  BY DEF InboxInv, InboxTypes, Balanced, Handing, Claimable

\* The inductive invariant holds in every behaviour.
LEMMA InboxInvariant == BuzzSpec => []InboxInv
  <1>1. BuzzInit => InboxInv
    <2> SUFFICES ASSUME BuzzInit, NEW e \in Events PROVE InboxTypes /\ Balanced(e)
      BY DEF InboxInv, BuzzInit, InboxTypes, RowStatus
    <2>1. InboxTypes
      BY DEF BuzzInit, InboxTypes, RowStatus
    <2>2. Handing(e) = {}
      BY BuzzAssumption DEF BuzzInit, Handing, Events
    <2>3. Cardinality(Handing(e)) = 0 /\ taken[e] = 0 /\ loosened[e] = 0
      BY <2>2, FS_EmptySet DEF BuzzInit
    <2> QED BY <2>1, <2>3 DEF Balanced, Claimable
  <1>2. InboxInv /\ [BuzzNext]_buzzVars => InboxInv'
    <2> SUFFICES ASSUME InboxInv, [BuzzNext]_buzzVars PROVE InboxInv'
      OBVIOUS
    <2>1. CASE UNCHANGED buzzVars
      BY <2>1, InboxQuiet DEF buzzVars
    <2>2. ASSUME NEW e \in Events, Publish(e) PROVE InboxInv'
      BY <2>2, InboxQuiet DEF Publish
    <2>3. ASSUME NEW p \in Pollers, PollerGoesOn(p) PROVE InboxInv'
      <3>1. CASE HandsOver(p) \/ MarksDelivered(p)
        BY <3>1, HandOverSteps
      <3>2. CASE Connect(p) \/ Subscribe(p) \/ Heartbeat(p) \/ StoppedEnds(p)
        BY <3>2, InboxQuiet DEF Connect, Subscribe, Heartbeat, StoppedEnds
      <3>3. CASE ReplayNext(p)
        BY <3>3, ClaimsBalanced DEF ReplayNext
      <3> QED BY <2>3, <3>1, <3>2, <3>3 DEF PollerGoesOn
    <2>4. ASSUME NEW p \in Pollers, Refused(p) \/ MarkFails(p) PROVE InboxInv'
      BY <2>4, HandOverSteps
    <2>5. ASSUME NEW p \in Pollers, ConnectionEnds(p) PROVE InboxInv'
      BY <2>5, InboxQuiet DEF ConnectionEnds
    <2>6. ASSUME NEW p \in Pollers, NEW e \in Events, Read(p, e) PROVE InboxInv'
      <3>1. CASE Claims(p, e, FALSE)
        BY <2>6, <3>1, ClaimsBalanced DEF Read
      <3>2. CASE UNCHANGED <<rows, dispatching>>
        BY <2>6, <3>2, InboxQuiet DEF Read
      <3> QED BY <2>6, <3>1, <3>2 DEF Read
    <2> QED BY <2>1, <2>2, <2>3, <2>4, <2>5, <2>6, ClaimsDropped DEF BuzzNext
  <1> QED BY <1>1, <1>2, PTL DEF BuzzSpec

\* The session takes an event once, and once more for each claim that was dropped beside its
\* hand-over.
THEOREM TakenOnceHolds == BuzzSpec => []TakenOnce
  <1>1. InboxInv => TakenOnce
    <2> SUFFICES ASSUME InboxInv, NEW e \in Events PROVE taken[e] <= 1 + loosened[e]
      BY DEF TakenOnce
    <2>1. Balanced(e) /\ taken[e] \in Nat /\ loosened[e] \in Nat
      BY DEF InboxInv, InboxTypes
    <2>2. Cardinality(Handing(e)) \in Nat /\ Claimable(e) \in Nat
      BY HandingIsFinite DEF Claimable
    <2> QED BY <2>1, <2>2 DEF Balanced
  <1> QED BY <1>1, InboxInvariant, PTL

-----------------------------------------------------------------------------
(* TelegramPoll: the broker gets an update once.                              *)

\* What poll k may still bring of update u: it has it, or it has yet to ask the platform
\* for what is neither below its offset nor confirmed.
MayBring(u, k) ==
    \/ u \in poll[k].parsed \cup poll[k].unparsed
    \/ /\ poll[k].at \in {"asking", "held"} /\ poll[k].of = current
       /\ u > poll[k].asked /\ u > confirmed

\* The polls that were given up and may bring u.
LatePolls(u) == {k \in Polls : ~poll[k].active /\ MayBring(u, k)}

\* u may still come by the poll that is awaited, or by one that begins after it.
Ahead(u) ==
    IF current # NoPoller /\ \/ u > offset[current] /\ u > confirmed
                             \/ \E k \in Polls : poll[k].active /\ MayBring(u, k)
    THEN 1 ELSE 0

GivenAtMost(u) ==
    given[u] + delivering[u] + Cardinality(LatePolls(u)) + Ahead(u) <= 1 + again[u]

\* A poll under way is of the current poller, unless its request has not arrived; one poll
\* is awaited; what an answer has lies above what was asked for, and what was parsed of it
\* below the offset.
PollOrder(k) ==
    /\ poll[k].at # "off" => poll[k].of \in BotPollers
    /\ poll[k].at \in {"held", "stuck", "parsing", "done"} => poll[k].of = current
    /\ poll[k].active => poll[k].of = current /\ poll[k].at # "off"
    /\ poll[k].at = "held" => poll[k].asked <= confirmed
    /\ poll[k].at \notin {"parsing", "done"} => poll[k].parsed = {}
    /\ poll[k].at # "parsing" => poll[k].unparsed = {}
    /\ \A u \in poll[k].parsed \cup poll[k].unparsed : u > poll[k].asked
    /\ \A u \in poll[k].parsed : u <= offset[poll[k].of]

OneAwaited == \A j, k \in Polls : poll[j].active /\ poll[k].active => j = k

GivenInv ==
    /\ TelegramTypeOK
    /\ \A k \in Polls : PollOrder(k)
    /\ OneAwaited
    /\ \A u \in Updates : GivenAtMost(u)

\* The least of a set of numbers belongs to it, and none is below it.
LEMMA MinIsIn ==
    ASSUME NEW S, S \subseteq Nat, S # {} PROVE Min(S) \in S /\ \A y \in S : Min(S) <= y
  <1> DEFINE R == {p \in Nat \X Nat : p[1] < p[2]}
  <1>1. IsWellFoundedOn(R, Nat)
    BY NatLessThanWellFounded DEF OpToRel
  <1>2. PICK x \in S : \A y \in S : ~(<<y, x>> \in R)
    <2> HIDE DEF R
    <2> QED BY <1>1, WFMin
  <1>3. ASSUME NEW y \in S PROVE x <= y
    <2>1. <<y, x>> \in Nat \X Nat /\ ~(<<y, x>> \in R)
      BY <1>2
    <2>2. ~(y < x)
      BY <2>1
    <2> QED BY <2>1, <2>2
  <1> QED BY <1>3 DEF Min

\* The greater of two numbers is one of them and below neither.
LEMMA MaxOfTwo ==
    ASSUME NEW a \in Nat, NEW b \in Nat
    PROVE  Max({a, b}) \in {a, b} /\ Max({a, b}) >= a /\ Max({a, b}) >= b
  <1>1. \E x \in {a, b} : \A y \in {a, b} : x >= y
    BY a >= b \/ b >= a, a >= a, b >= b
  <1> QED BY <1>1 DEF Max

\* What the assumption on the constants says, in the forms the proofs need.
LEMMA TelegramBounds ==
    /\ MaxUpdates \in Nat /\ MaxInstalls \in Nat /\ MaxOutages \in Nat
    /\ BotPollers # {} /\ NoPoller \notin BotPollers
    /\ 0 \in 0..MaxUpdates /\ NoPoll \in Poll /\ IsFiniteSet(Polls)
  <1>1. MaxUpdates \in Nat /\ MaxInstalls \in Nat /\ MaxOutages \in Nat
    BY TelegramAssumption
  <1>2. BotPollers # {} /\ NoPoller \notin BotPollers
    BY TelegramAssumption DEF NoPoller
  <1>3. 0 \in 0..MaxUpdates
    BY <1>1
  <1>4. NoPoll \in Poll
    BY <1>3 DEF NoPoll, Poll
  <1>5. IsFiniteSet(Polls)
    BY <1>1, FS_Interval DEF Polls
  <1> QED BY <1>1, <1>2, <1>3, <1>4, <1>5

\* The polls that were given up are finitely many.
LEMMA LateIsFinite ==
    \A u : /\ IsFiniteSet(LatePolls(u)) /\ Cardinality(LatePolls(u)) \in Nat
           /\ IsFiniteSet(LatePolls(u)') /\ Cardinality(LatePolls(u)') \in Nat
  <1> TAKE u
  <1>1. LatePolls(u) \subseteq Polls /\ LatePolls(u)' \subseteq Polls /\ IsFiniteSet(Polls)
    BY TelegramBounds DEF LatePolls, Polls
  <1>2. IsFiniteSet(LatePolls(u)) /\ IsFiniteSet(LatePolls(u)')
    BY <1>1, FS_Subset
  <1> QED BY <1>2, FS_CardinalityType

\* A step that brings no update nearer to the broker.
LEMMA NothingComes ==
    ASSUME TelegramTypeOK, TelegramTypeOK', NEW u \in Updates, GivenAtMost(u),
           given'[u] + delivering'[u] <= given[u] + delivering[u], again'[u] >= again[u],
           LatePolls(u)' \subseteq LatePolls(u), Ahead(u)' <= Ahead(u)
    PROVE  GivenAtMost(u)'
  <1>1. Cardinality(LatePolls(u)') <= Cardinality(LatePolls(u))
    BY LateIsFinite, FS_Subset
  <1>2. /\ Cardinality(LatePolls(u)) \in Nat /\ Cardinality(LatePolls(u)') \in Nat
        /\ Ahead(u) \in Nat /\ Ahead(u)' \in Nat
        /\ given[u] \in Nat /\ delivering[u] \in Nat /\ again[u] \in Nat
        /\ given'[u] \in Nat /\ delivering'[u] \in Nat /\ again'[u] \in Nat
    BY LateIsFinite DEF Ahead, TelegramTypeOK
  <1> QED BY <1>1, <1>2 DEF GivenAtMost

\* The record of poll k after a step that leaves the other polls alone.
LEMMA OtherPolls ==
    ASSUME GivenInv, NEW k \in Polls, NEW r \in Poll, poll' = [poll EXCEPT ![k] = r],
           current' = current, offset' \in [BotPollers -> 0..MaxUpdates],
           \A p \in BotPollers : offset'[p] >= offset[p],
           confirmed' \in 0..MaxUpdates, confirmed' >= confirmed,
           NEW j \in Polls, j # k
    PROVE  /\ poll'[j] = poll[j] /\ PollOrder(j)'
           /\ \A u \in Updates : MayBring(u, j)' => MayBring(u, j)
  <1>1. poll'[j] = poll[j] /\ poll[j] \in Poll /\ PollOrder(j)
    BY DEF GivenInv, TelegramTypeOK
  <1>2. /\ confirmed \in Nat /\ confirmed' \in Nat /\ poll[j].asked \in Nat
        /\ poll[j].parsed \subseteq Nat
    BY <1>1, TelegramBounds DEF GivenInv, TelegramTypeOK, Poll, Updates
  <1>3. \A p \in BotPollers : offset[p] \in Nat /\ offset'[p] \in Nat
    BY TelegramBounds DEF GivenInv, TelegramTypeOK
  <1>4. poll[j].at = "held" => poll[j].asked <= confirmed'
    BY <1>1, <1>2 DEF PollOrder
  <1>5. \A u \in poll[j].parsed : u <= offset'[poll[j].of]
    <2> TAKE u \in poll[j].parsed
    <2>1. poll[j].of \in BotPollers /\ u <= offset[poll[j].of] /\ u \in Nat
      BY <1>1, <1>2 DEF PollOrder
    <2> QED BY <2>1, <1>3
  <1>6. PollOrder(j)'
    BY <1>1, <1>4, <1>5 DEF PollOrder
  <1>7. ASSUME NEW u \in Updates, MayBring(u, j)' PROVE MayBring(u, j)
    <2>1. u \in Nat
      BY DEF Updates
    <2> QED BY <1>1, <1>2, <1>7, <2>1 DEF MayBring
  <1> QED BY <1>1, <1>6, <1>7

\* A step of poll k that gives it nothing it could not have brought before.
LEMMA PollMoves ==
    ASSUME GivenInv, NEW k \in Polls, NEW r \in Poll, poll' = [poll EXCEPT ![k] = r],
           current' = current, offset' \in [BotPollers -> 0..MaxUpdates],
           \A p \in BotPollers : offset'[p] >= offset[p],
           confirmed' \in 0..MaxUpdates, confirmed' >= confirmed,
           UNCHANGED <<sent, delivering, given, again, discarded, installs>>,
           outages' \in 0..MaxOutages,
           PollOrder(k)', r.active => poll[k].active,
           \A u \in Updates : MayBring(u, k)' => MayBring(u, k) /\ r.active = poll[k].active
    PROVE  GivenInv'
  <1>1. TelegramTypeOK /\ TelegramTypeOK'
    BY DEF GivenInv, TelegramTypeOK
  <1>2. \A j \in Polls : PollOrder(j)'
    BY OtherPolls
  <1>3. poll'[k] = r /\ \A j \in Polls : j # k => poll'[j] = poll[j]
    BY <1>1 DEF TelegramTypeOK
  <1>4. OneAwaited'
    BY <1>3 DEF OneAwaited, GivenInv
  <1>5. ASSUME NEW u \in Updates PROVE GivenAtMost(u)'
    <2>1. \A j \in Polls : MayBring(u, j)' => MayBring(u, j) /\ poll'[j].active = poll[j].active
      BY OtherPolls, <1>3
    <2>2. LatePolls(u)' \subseteq LatePolls(u)
      BY <2>1 DEF LatePolls, Polls
    <2>3. current \in BotPollers => offset[current] \in Nat /\ offset'[current] \in Nat
      BY <1>1, TelegramBounds DEF TelegramTypeOK
    <2>4. confirmed \in Nat /\ confirmed' \in Nat /\ u \in Nat
      BY <1>1, TelegramBounds DEF TelegramTypeOK, Updates
    <2>5. current # NoPoller => current \in BotPollers
      BY <1>1 DEF TelegramTypeOK
    <2>6. current # NoPoller /\ u > offset'[current] => u > offset[current]
      BY <2>3, <2>4, <2>5
    <2>7. u > confirmed' => u > confirmed
      BY <2>4
    <2>8. (\E j \in Polls : poll'[j].active /\ MayBring(u, j)')
              => \E j \in Polls : poll[j].active /\ MayBring(u, j)
      BY <2>1
    <2>9. Ahead(u)' <= Ahead(u)
      BY <2>6, <2>7, <2>8 DEF Ahead, Polls
    <2>10. GivenAtMost(u) /\ given'[u] + delivering'[u] <= given[u] + delivering[u] /\ again'[u] >= again[u]
      BY <1>1 DEF GivenInv, TelegramTypeOK
    <2> QED BY <1>1, <2>2, <2>9, <2>10, NothingComes
  <1> QED BY <1>1, <1>2, <1>4, <1>5 DEF GivenInv

-----------------------------------------------------------------------------
(* The steps of a poll's thread.                                              *)

\* Every action but those of the poller leaves these alone.
LEMMA PollTypes ==
    ASSUME GivenInv, NEW k \in Polls
    PROVE  /\ poll[k] \in Poll /\ PollOrder(k) /\ TelegramTypeOK
           /\ current \in BotPollers \cup {NoPoller}
           /\ poll[k].asked \in Nat /\ poll[k].parsed \subseteq Updates
           /\ poll[k].unparsed \subseteq Updates /\ Updates \subseteq Nat
           /\ confirmed \in Nat /\ confirmed \in 0..MaxUpdates /\ sent \in 0..MaxUpdates
           /\ offset \in [BotPollers -> 0..MaxUpdates]
           /\ \A p \in BotPollers : offset[p] \in Nat /\ offset[p] <= offset[p]
           /\ outages \in 0..MaxOutages
  <1>1. TelegramTypeOK /\ PollOrder(k)
    BY DEF GivenInv
  <1>2. poll[k] \in Poll
    BY <1>1 DEF TelegramTypeOK
  <1>3. poll[k].asked \in 0..MaxUpdates /\ poll[k].parsed \subseteq Updates /\ poll[k].unparsed \subseteq Updates
    BY <1>2 DEF Poll
  <1>4. Updates \subseteq Nat /\ poll[k].asked \in Nat
    BY <1>3, TelegramBounds DEF Updates
  <1>5. /\ confirmed \in 0..MaxUpdates /\ sent \in 0..MaxUpdates /\ outages \in 0..MaxOutages
        /\ offset \in [BotPollers -> 0..MaxUpdates] /\ current \in BotPollers \cup {NoPoller}
    BY <1>1 DEF TelegramTypeOK
  <1>6. confirmed \in Nat /\ \A p \in BotPollers : offset[p] \in Nat /\ offset[p] <= offset[p]
    BY <1>5, TelegramBounds
  <1> QED BY <1>1, <1>2, <1>3, <1>4, <1>5, <1>6

\* The same, where only the poll itself changes.
LEMMA PollMovesAlone ==
    ASSUME GivenInv, NEW k \in Polls, NEW r \in Poll, poll' = [poll EXCEPT ![k] = r],
           UNCHANGED <<sent, confirmed, current, offset, delivering, given, again, discarded, installs>>,
           outages' \in 0..MaxOutages, r.active = poll[k].active,
           PollOrder(k)', \A u \in Updates : MayBring(u, k)' => MayBring(u, k)
    PROVE  GivenInv'
  <1>1. /\ offset' \in [BotPollers -> 0..MaxUpdates] /\ confirmed' \in 0..MaxUpdates
        /\ \A p \in BotPollers : offset'[p] >= offset[p]
        /\ confirmed' >= confirmed /\ current' = current
    BY PollTypes
  <1> QED BY <1>1, PollMoves

\* The outages stay within their bound.
LEMMA OutagesBounded ==
    ASSUME GivenInv, Outage \/ UNCHANGED outages PROVE outages' \in 0..MaxOutages
  BY TelegramBounds DEF GivenInv, TelegramTypeOK, Outage

\* A poll that is over brings nothing.
LEMMA EmptyPoll ==
    ASSUME NEW k \in Polls, TelegramTypeOK, poll' = [poll EXCEPT ![k] = NoPoll]
    PROVE  PollOrder(k)' /\ \A u : ~MayBring(u, k)'
  <1>1. poll'[k] = NoPoll
    BY DEF TelegramTypeOK
  <1>2. /\ NoPoll.at = "off" /\ NoPoll.active = FALSE /\ NoPoll.parsed = {} /\ NoPoll.unparsed = {}
    BY DEF NoPoll
  <1> QED BY <1>1, <1>2 DEF PollOrder, MayBring

\* A poll that is over brings nothing more.
LEMMA PollIsOff ==
    ASSUME GivenInv, NEW k \in Polls, poll' = [poll EXCEPT ![k] = NoPoll],
           confirmed' \in 0..MaxUpdates, confirmed' >= confirmed,
           UNCHANGED <<sent, current, offset, delivering, given, again, discarded, installs>>,
           outages' \in 0..MaxOutages
    PROVE  GivenInv'
  <1>1. NoPoll \in Poll /\ NoPoll.active = FALSE
    BY TelegramBounds DEF NoPoll
  <1>2. PollOrder(k)' /\ \A u : ~MayBring(u, k)'
    BY EmptyPoll DEF GivenInv
  <1> QED BY <1>1, <1>2, PollTypes, PollMoves

\* On its way to the platform and back a poll comes to bring nothing new.
LEMMA RequestSteps ==
    ASSUME GivenInv, NEW k \in Polls,
           RequestArrives(k) \/ PlatformAnswers(k) \/ RequestFails(k) \/ RequestHangs(k)
    PROVE  GivenInv'
  <1>t. /\ poll[k] \in Poll /\ PollOrder(k) /\ TelegramTypeOK
        /\ poll[k].asked \in Nat /\ confirmed \in Nat /\ confirmed \in 0..MaxUpdates
        /\ offset \in [BotPollers -> 0..MaxUpdates] /\ sent \in 0..MaxUpdates
        /\ \A p \in BotPollers : offset[p] \in Nat /\ offset[p] <= offset[p]
        /\ Updates \subseteq Nat /\ outages \in 0..MaxOutages
    BY PollTypes
  <1>1. CASE RequestArrives(k)
    <2>1. PICK c : c = Max({confirmed, poll[k].asked})
      OBVIOUS
    <2>2. c \in {confirmed, poll[k].asked} /\ c >= confirmed /\ c >= poll[k].asked
      BY <2>1, <1>t, MaxOfTwo
    <2>3. /\ poll[k].at = "asking" /\ confirmed' = c
          /\ poll' = [poll EXCEPT ![k] = IF poll[k].of = current THEN [poll[k] EXCEPT !.at = "held"] ELSE NoPoll]
          /\ UNCHANGED <<sent, current, offset, delivering, given, again, discarded, installs, outages>>
      BY <1>1, <2>1 DEF RequestArrives
    <2>4. confirmed' \in 0..MaxUpdates /\ confirmed' >= confirmed /\ confirmed' \in Nat
      <3>1. poll[k].asked \in 0..MaxUpdates
        BY <1>t DEF Poll
      <3> QED BY <2>2, <2>3, <3>1, <1>t
    <2>5. CASE poll[k].of = current
      <3>1. PICK r \in Poll : r = [poll[k] EXCEPT !.at = "held"]
        BY <1>t DEF Poll
      <3>2. /\ r.at = "held" /\ r.of = poll[k].of /\ r.asked = poll[k].asked /\ r.active = poll[k].active
            /\ r.parsed = poll[k].parsed /\ r.unparsed = poll[k].unparsed
        BY <3>1, <1>t DEF Poll
      <3>3. poll' = [poll EXCEPT ![k] = r] /\ poll'[k] = r
        BY <2>3, <2>5, <3>1, <1>t DEF TelegramTypeOK
      <3>4. PollOrder(k)'
        BY <1>t, <2>2, <2>3, <2>5, <3>2, <3>3 DEF PollOrder
      <3>5. ASSUME NEW u \in Updates, MayBring(u, k)' PROVE MayBring(u, k)
        <4>1. u \in Nat
          BY <1>t
        <4> QED BY <1>t, <2>2, <2>3, <2>4, <2>5, <3>2, <3>3, <3>5, <4>1 DEF MayBring
      <3> QED BY <1>t, <2>3, <2>4, <3>2, <3>3, <3>4, <3>5, PollMoves
    <2>6. CASE poll[k].of # current
      BY <1>t, <2>3, <2>4, <2>6, PollIsOff
    <2> QED BY <2>5, <2>6
  <1>2. CASE PlatformAnswers(k)
    <2>1. PICK new \in SUBSET Updates : new = (confirmed + 1)..sent
      <3>1. (confirmed + 1)..sent \subseteq Updates
        BY <1>t, TelegramBounds DEF Updates
      <3> QED BY <3>1
    <2>2. PICK r \in Poll : r = [poll[k] EXCEPT !.at = "parsing", !.unparsed = new]
      BY <1>t DEF Poll
    <2>3. /\ r.at = "parsing" /\ r.of = poll[k].of /\ r.asked = poll[k].asked /\ r.active = poll[k].active
          /\ r.parsed = poll[k].parsed /\ r.unparsed = new
      BY <2>2, <1>t DEF Poll
    <2>4. poll[k].at = "held" /\ poll' = [poll EXCEPT ![k] = r] /\ poll'[k] = r
          /\ UNCHANGED <<sent, confirmed, current, offset, delivering, given, again, discarded, installs, outages>>
      BY <1>2, <2>1, <2>2, <1>t DEF PlatformAnswers, TelegramTypeOK
    <2>5. \A u \in new : u > poll[k].asked /\ u > confirmed
      BY <2>1, <2>4, <1>t DEF PollOrder
    <2>6. PollOrder(k)'
      BY <1>t, <2>3, <2>4, <2>5 DEF PollOrder
    <2>7. ASSUME NEW u \in Updates, MayBring(u, k)' PROVE MayBring(u, k)
      BY <1>t, <2>3, <2>4, <2>5, <2>7 DEF MayBring, PollOrder
    <2> QED BY <1>t, <2>3, <2>4, <2>6, <2>7, PollMovesAlone
  <1>3. CASE RequestFails(k)
    <2>1. /\ poll' = [poll EXCEPT ![k] = NoPoll] /\ (Outage \/ UNCHANGED outages)
          /\ UNCHANGED <<sent, confirmed, current, offset, delivering, given, again, discarded, installs>>
      BY <1>3 DEF RequestFails
    <2>2. confirmed' \in 0..MaxUpdates /\ confirmed' >= confirmed /\ outages' \in 0..MaxOutages
      BY <1>t, <2>1, OutagesBounded
    <2> QED BY <2>1, <2>2, PollIsOff
  <1>4. CASE RequestHangs(k)
    <2>1. PICK r \in Poll : r = [poll[k] EXCEPT !.at = "stuck"]
      BY <1>t DEF Poll
    <2>2. /\ r.at = "stuck" /\ r.of = poll[k].of /\ r.asked = poll[k].asked /\ r.active = poll[k].active
          /\ r.parsed = poll[k].parsed /\ r.unparsed = poll[k].unparsed
      BY <2>1, <1>t DEF Poll
    <2>3. /\ poll[k].at \in {"asking", "held"} /\ poll[k].active /\ Outage
          /\ poll' = [poll EXCEPT ![k] = r] /\ poll'[k] = r
          /\ UNCHANGED <<sent, confirmed, current, offset, delivering, given, again, discarded, installs>>
      BY <1>4, <2>1, <1>t DEF RequestHangs, TelegramTypeOK
    <2>4. PollOrder(k)'
      BY <1>t, <2>2, <2>3 DEF PollOrder
    <2>5. \A u \in Updates : MayBring(u, k)' => MayBring(u, k)
      BY <2>2, <2>3 DEF MayBring
    <2> QED BY <1>t, <2>2, <2>3, <2>4, <2>5, OutagesBounded, PollMovesAlone
  <1> QED BY <1>1, <1>2, <1>3, <1>4

\* Parsing moves the offset over what is parsed; a poll given up returns to nobody.
LEMMA ParseSteps ==
    ASSUME GivenInv, NEW k \in Polls, ParseUpdate(k) \/ PollReturns(k)
    PROVE  GivenInv'
  <1>t. /\ poll[k] \in Poll /\ PollOrder(k) /\ TelegramTypeOK
        /\ poll[k].asked \in Nat /\ confirmed \in Nat /\ confirmed \in 0..MaxUpdates
        /\ offset \in [BotPollers -> 0..MaxUpdates] /\ sent \in 0..MaxUpdates
        /\ \A p \in BotPollers : offset[p] \in Nat /\ offset[p] <= offset[p]
        /\ Updates \subseteq Nat /\ outages \in 0..MaxOutages
        /\ poll[k].parsed \subseteq Updates /\ poll[k].unparsed \subseteq Updates
    BY PollTypes
  <1>1. CASE ParseUpdate(k)
    <2>1. PICK u \in Updates : u = Min(poll[k].unparsed) /\ u \in poll[k].unparsed
      <3>1. poll[k].unparsed \subseteq Nat /\ poll[k].unparsed # {}
        BY <1>1, <1>t DEF ParseUpdate
      <3> QED BY <3>1, <1>t, MinIsIn
    <2>2. PICK p \in BotPollers : p = poll[k].of
      BY <1>1, <1>t DEF ParseUpdate, PollOrder
    <2>3. PICK m : m = Max({offset[p], u})
      OBVIOUS
    <2>4. m \in {offset[p], u} /\ m >= offset[p] /\ m >= u /\ m \in 0..MaxUpdates
      <3>1. u \in Nat /\ u \in 0..MaxUpdates
        BY TelegramBounds DEF Updates
      <3>2. offset[p] \in Nat /\ offset[p] \in 0..MaxUpdates
        BY <1>t
      <3> QED BY <2>3, <3>1, <3>2, MaxOfTwo
    <2>5. PICK r \in Poll : r = [poll[k] EXCEPT !.unparsed = @ \ {u}, !.parsed = @ \cup {u}]
      <3>1. poll[k].unparsed \ {u} \in SUBSET Updates /\ poll[k].parsed \cup {u} \in SUBSET Updates
        BY <1>t
      <3> QED BY <1>t, <3>1 DEF Poll
    <2>6. /\ r.at = poll[k].at /\ r.of = p /\ r.asked = poll[k].asked /\ r.active = poll[k].active
          /\ r.parsed = poll[k].parsed \cup {u} /\ r.unparsed = poll[k].unparsed \ {u}
      BY <2>2, <2>5, <1>t DEF Poll
    <2>7. /\ poll[k].at = "parsing" /\ poll' = [poll EXCEPT ![k] = r] /\ poll'[k] = r
          /\ offset' = [offset EXCEPT ![p] = m]
          /\ UNCHANGED <<sent, confirmed, current, delivering, given, again, discarded, installs, outages>>
      BY <1>1, <2>1, <2>2, <2>3, <2>5, <1>t DEF ParseUpdate, TelegramTypeOK
    <2>8. /\ offset' \in [BotPollers -> 0..MaxUpdates] /\ offset'[p] = m
          /\ \A q \in BotPollers : offset'[q] >= offset[q]
      BY <1>t, <2>4, <2>7
    <2>9. \A v \in poll[k].parsed \cup {u} : v <= offset'[p]
      <3> TAKE v \in poll[k].parsed \cup {u}
      <3>1. v \in Nat /\ m \in Nat /\ offset[p] \in Nat
        BY <1>t, <2>4, TelegramBounds
      <3>2. v = u \/ v <= offset[p]
        BY <1>t, <2>2 DEF PollOrder
      <3> QED BY <2>4, <2>8, <3>1, <3>2
    <2>10. PollOrder(k)'
      BY <1>t, <2>1, <2>2, <2>6, <2>7, <2>9 DEF PollOrder
    <2>11. \A v \in Updates : MayBring(v, k)' => MayBring(v, k)
      BY <2>1, <2>6, <2>7 DEF MayBring
    <2>12. confirmed' \in 0..MaxUpdates /\ confirmed' >= confirmed /\ outages' \in 0..MaxOutages
      BY <1>t, <2>7
    <2> QED BY <2>6, <2>7, <2>8, <2>10, <2>11, <2>12, PollMoves
  <1>2. CASE PollReturns(k)
    <2>1. PICK r \in Poll : r = [poll[k] EXCEPT !.at = "done"]
      BY <1>t DEF Poll
    <2>2. /\ r.at = "done" /\ r.of = poll[k].of /\ r.asked = poll[k].asked /\ r.active = poll[k].active
          /\ r.parsed = poll[k].parsed /\ r.unparsed = poll[k].unparsed
      BY <2>1, <1>t DEF Poll
    <2>3. /\ poll[k].at = "parsing" /\ poll[k].unparsed = {}
          /\ poll' = [poll EXCEPT ![k] = r] /\ poll'[k] = r
          /\ UNCHANGED <<sent, confirmed, current, offset, delivering, given, again, discarded, installs, outages>>
      BY <1>2, <2>1, <1>t DEF PollReturns, TelegramTypeOK
    <2>4. PollOrder(k)'
      BY <1>t, <2>2, <2>3 DEF PollOrder
    <2>5. \A u \in Updates : MayBring(u, k)' => MayBring(u, k)
      BY <2>2, <2>3 DEF MayBring
    <2> QED BY <1>t, <2>2, <2>3, <2>4, <2>5, PollMovesAlone
  <1> QED BY <1>1, <1>2

-----------------------------------------------------------------------------
(* The poller, the deliveries, tokens and crashes.                            *)

\* What is counted are numbers.
LEMMA CountsTyped ==
    ASSUME TelegramTypeOK, NEW u \in Updates
    PROVE  /\ u \in Nat /\ u \in 0..MaxUpdates /\ confirmed \in Nat
           /\ given[u] \in Nat /\ delivering[u] \in Nat /\ again[u] \in Nat
           /\ Ahead(u) \in 0..1 /\ Ahead(u)' \in 0..1
           /\ Cardinality(LatePolls(u)) \in Nat /\ Cardinality(LatePolls(u)') \in Nat
  <1>1. u \in Nat /\ u \in 0..MaxUpdates /\ confirmed \in Nat
    BY TelegramBounds DEF Updates, TelegramTypeOK
  <1>2. given[u] \in Nat /\ delivering[u] \in Nat /\ again[u] \in Nat
    BY DEF TelegramTypeOK
  <1>3. Ahead(u) \in 0..1 /\ Ahead(u)' \in 0..1
    BY DEF Ahead
  <1> QED BY <1>1, <1>2, <1>3, LateIsFinite

\* A poll begins only when none is awaited, and behind what the last one brought.
LEMMA PollBeginsOnce ==
    ASSUME GivenInv, PollBegins PROVE GivenInv'
  <1>t. TelegramTypeOK
    BY DEF GivenInv
  <1>1. PICK k : k = CHOOSE j \in Polls : poll[j] = NoPoll
    OBVIOUS
  <1>2. PICK r : r = [NoPoll EXCEPT !.of = current, !.at = "asking", !.asked = offset[current],
                                    !.active = TRUE]
    OBVIOUS
  <1>3. /\ current # NoPoller /\ current \in BotPollers /\ Awaited(current) = {}
        /\ poll' = [poll EXCEPT ![k] = r]
        /\ UNCHANGED <<sent, confirmed, current, offset, delivering, given, again, discarded,
                       installs, outages>>
    BY <1>1, <1>2, <1>t DEF PollBegins, TelegramTypeOK
  <1>4. /\ offset[current] \in 0..MaxUpdates /\ offset[current] \in Nat
    BY <1>3, <1>t, TelegramBounds DEF TelegramTypeOK
  <1>5. /\ r \in Poll /\ r.of = current /\ r.at = "asking" /\ r.asked = offset[current]
        /\ r.active = TRUE /\ r.parsed = {} /\ r.unparsed = {}
    BY <1>2, <1>3, <1>4, TelegramBounds DEF NoPoll, Poll
  <1>6. /\ \A j \in Polls : poll'[j] = IF j = k THEN r ELSE poll[j]
        /\ TelegramTypeOK'
    BY <1>3, <1>5, <1>t DEF TelegramTypeOK
  <1>7. \A j \in Polls : ~poll[j].active
    BY <1>3 DEF Awaited, GivenInv, PollOrder
  <1>8. OneAwaited'
    BY <1>6, <1>7 DEF OneAwaited
  <1>9. ASSUME NEW j \in Polls PROVE PollOrder(j)'
    <2>1. CASE j = k
      BY <2>1, <1>3, <1>5, <1>6 DEF PollOrder
    <2>2. CASE j # k
      BY <2>2, <1>3, <1>6 DEF PollOrder, GivenInv
    <2> QED BY <2>1, <2>2
  <1>10. ASSUME NEW u \in Updates PROVE GivenAtMost(u)'
    <2>1. \A j \in Polls : j # k => (MayBring(u, j)' <=> MayBring(u, j)) /\ poll'[j] = poll[j]
      BY <1>3, <1>6 DEF MayBring
    <2>2. LatePolls(u)' \subseteq LatePolls(u)
      <3> SUFFICES ASSUME NEW j \in LatePolls(u)' PROVE j \in LatePolls(u)
        OBVIOUS
      <3>1. j \in Polls /\ ~poll'[j].active /\ MayBring(u, j)'
        BY DEF LatePolls, Polls
      <3>2. j # k
        BY <3>1, <1>5, <1>6
      <3> QED BY <3>1, <3>2, <2>1 DEF LatePolls
    <2>3. k \in Polls /\ MayBring(u, k)' => u > offset[current] /\ u > confirmed
      BY <1>3, <1>5, <1>6 DEF MayBring
    <2>4. ASSUME NEW j \in Polls, poll'[j].active, MayBring(u, j)'
          PROVE  u > offset[current] /\ u > confirmed
      <3>1. j = k
        BY <2>1, <2>4, <1>7
      <3> QED BY <3>1, <2>3, <2>4
    <2>5. Ahead(u)' <= Ahead(u)
      <3>1. (\E j \in Polls : poll'[j].active /\ MayBring(u, j)') => u > offset[current] /\ u > confirmed
        BY <2>4
      <3>2. Polls' = Polls
        BY DEF Polls
      <3>3. Ahead(u)' = 1 => Ahead(u) = 1
        BY <1>3, <3>1, <3>2 DEF Ahead
      <3> QED BY <3>3, <1>t, CountsTyped
    <2>6. /\ GivenAtMost(u) /\ given'[u] + delivering'[u] <= given[u] + delivering[u]
          /\ again'[u] >= again[u]
      BY <1>3, <1>t, CountsTyped DEF GivenInv
    <2> QED BY <1>t, <1>6, <2>2, <2>5, <2>6, NothingComes
  <1> QED BY <1>6, <1>8, <1>9, <1>10 DEF GivenInv

\* A poll that is given up may still bring what it asked for, and the next one asks again.
LEMMA DeadlineCounts ==
    ASSUME GivenInv, NEW k \in Polls, DeadlineFires(k) PROVE GivenInv'
  <1>t. /\ poll[k] \in Poll /\ PollOrder(k) /\ TelegramTypeOK
        /\ poll[k].asked \in Nat /\ outages \in 0..MaxOutages
    BY PollTypes
  <1>1. PICK r \in Poll : r = IF poll[k].at = "stuck" THEN NoPoll ELSE [poll[k] EXCEPT !.active = FALSE]
    BY <1>t, TelegramBounds DEF Poll
  <1>2. /\ poll[k].active /\ (Outage \/ UNCHANGED outages)
        /\ poll' = [poll EXCEPT ![k] = r]
        /\ again' = [u \in Updates |-> IF u > poll[k].asked THEN again[u] + 1 ELSE again[u]]
        /\ UNCHANGED <<sent, confirmed, current, offset, delivering, given, discarded, installs>>
    BY <1>1 DEF DeadlineFires, Recycles
  <1>3. \/ r = NoPoll
        \/ /\ r.at = poll[k].at /\ r.of = poll[k].of /\ r.asked = poll[k].asked /\ r.active = FALSE
           /\ r.parsed = poll[k].parsed /\ r.unparsed = poll[k].unparsed
    BY <1>1, <1>t DEF Poll
  <1>4. r.active = FALSE
    BY <1>3 DEF NoPoll
  <1>5. /\ \A j \in Polls : poll'[j] = IF j = k THEN r ELSE poll[j]
        /\ outages' \in 0..MaxOutages
    BY <1>2, <1>t, OutagesBounded DEF TelegramTypeOK
  <1>6. TelegramTypeOK'
    <2>1. poll' \in [Polls -> Poll]
      BY <1>2, <1>t DEF TelegramTypeOK
    <2>2. again' \in [Updates -> Nat]
      BY <1>2, <1>t DEF TelegramTypeOK
    <2> QED BY <1>2, <1>5, <1>t, <2>1, <2>2 DEF TelegramTypeOK
  <1>7. OneAwaited'
    BY <1>4, <1>5 DEF OneAwaited, GivenInv
  <1>8. ASSUME NEW j \in Polls PROVE PollOrder(j)'
    <2>1. CASE j # k
      BY <2>1, <1>2, <1>5 DEF PollOrder, GivenInv
    <2>2. CASE j = k /\ r = NoPoll
      BY <2>2, <1>5 DEF PollOrder, NoPoll
    <2>3. CASE j = k /\ r # NoPoll
      BY <2>3, <1>2, <1>3, <1>5, <1>t DEF PollOrder
    <2> QED BY <2>1, <2>2, <2>3
  <1>9. ASSUME NEW u \in Updates PROVE GivenAtMost(u)'
    <2>1. \A j \in Polls : j # k => (MayBring(u, j)' <=> MayBring(u, j)) /\ poll'[j] = poll[j]
      BY <1>2, <1>5 DEF MayBring
    <2>2. MayBring(u, k)' => MayBring(u, k) /\ u > poll[k].asked
      BY <1>2, <1>3, <1>5, <1>t DEF MayBring, NoPoll, PollOrder
    <2>3. LatePolls(u)' \subseteq LatePolls(u) \cup {k}
      BY <2>1 DEF LatePolls, Polls
    <2>4. Ahead(u)' <= Ahead(u)
      <3>1. \A j \in Polls : poll'[j].active /\ MayBring(u, j)' => poll[j].active /\ MayBring(u, j)
        BY <2>1, <1>4, <1>5
      <3>2. Polls' = Polls
        BY DEF Polls
      <3>3. Ahead(u)' = 1 => Ahead(u) = 1
        BY <1>2, <3>1, <3>2 DEF Ahead
      <3> QED BY <3>3, <1>t, CountsTyped
    <2>5. CASE u > poll[k].asked
      <3>1. Cardinality(LatePolls(u)') <= Cardinality(LatePolls(u)) + 1
        <4>1. /\ IsFiniteSet(LatePolls(u) \cup {k})
              /\ Cardinality(LatePolls(u) \cup {k}) <= Cardinality(LatePolls(u)) + 1
          <5>1. IsFiniteSet(LatePolls(u)) /\ Cardinality(LatePolls(u)) \in Nat
            BY LateIsFinite
          <5>2. /\ IsFiniteSet(LatePolls(u) \cup {k})
                /\ Cardinality(LatePolls(u) \cup {k})
                     = IF k \in LatePolls(u) THEN Cardinality(LatePolls(u))
                       ELSE Cardinality(LatePolls(u)) + 1
            BY <5>1, FS_AddElement
          <5> QED BY <5>1, <5>2
        <4>2. Cardinality(LatePolls(u)') <= Cardinality(LatePolls(u) \cup {k})
          BY <2>3, <4>1, FS_Subset
        <4>3. Cardinality(LatePolls(u) \cup {k}) \in Nat
          BY <4>1, FS_CardinalityType
        <4> QED BY <4>1, <4>2, <4>3, LateIsFinite
      <3>2. again'[u] = again[u] + 1 /\ given'[u] = given[u] /\ delivering'[u] = delivering[u]
        BY <1>2, <2>5
      <3>3. GivenAtMost(u)
        BY DEF GivenInv
      <3> QED BY <2>4, <3>1, <3>2, <3>3, <1>t, CountsTyped DEF GivenAtMost
    <2>6. CASE ~(u > poll[k].asked)
      <3>1. LatePolls(u)' \subseteq LatePolls(u)
        BY <2>1, <2>2, <2>6 DEF LatePolls, Polls
      <3>2. again'[u] = again[u] /\ given'[u] = given[u] /\ delivering'[u] = delivering[u]
        BY <1>2, <2>6
      <3>3. /\ GivenAtMost(u) /\ given'[u] + delivering'[u] <= given[u] + delivering[u]
            /\ again'[u] >= again[u]
        BY <3>2, <1>t, CountsTyped DEF GivenInv
      <3> QED BY <1>t, <1>6, <2>4, <3>1, <3>3, NothingComes
    <2> QED BY <2>5, <2>6
  <1> QED BY <1>6, <1>7, <1>8, <1>9 DEF GivenInv

\* What a poll brings is delivered, and is neither to come by it nor by one after it.
LEMMA CollectCounts ==
    ASSUME GivenInv, NEW k \in Polls, Collect(k) PROVE GivenInv'
  <1>t. /\ poll[k] \in Poll /\ PollOrder(k) /\ TelegramTypeOK
    BY PollTypes
  <1>1. /\ poll[k].at = "done" /\ poll' = [poll EXCEPT ![k] = NoPoll]
        /\ delivering' = [u \in Updates |->
               IF u \in poll[k].parsed THEN delivering[u] + 1 ELSE delivering[u]]
        /\ UNCHANGED <<sent, confirmed, current, offset, given, again, discarded, installs, outages>>
    BY DEF Collect
  <1>2. /\ \A j \in Polls : poll'[j] = IF j = k THEN NoPoll ELSE poll[j]
        /\ NoPoll.active = FALSE
    BY <1>1, <1>t DEF TelegramTypeOK, NoPoll
  <1>3. TelegramTypeOK'
    <2>1. poll' \in [Polls -> Poll]
      BY <1>1, <1>t, TelegramBounds DEF TelegramTypeOK
    <2>2. delivering' \in [Updates -> Nat]
      BY <1>1, <1>t DEF TelegramTypeOK
    <2> QED BY <1>1, <1>t, <2>1, <2>2 DEF TelegramTypeOK
  <1>4. OneAwaited'
    BY <1>2 DEF OneAwaited, GivenInv
  <1>5. PollOrder(k)' /\ \A u : ~MayBring(u, k)'
    BY <1>1, <1>t, EmptyPoll
  <1>6. ASSUME NEW j \in Polls PROVE PollOrder(j)'
    <2>1. CASE j # k
      BY <2>1, <1>1, <1>2 DEF PollOrder, GivenInv
    <2> QED BY <2>1, <1>5
  <1>7. ASSUME NEW u \in Updates PROVE GivenAtMost(u)'
    <2>1. \A j \in Polls : j # k => (MayBring(u, j)' <=> MayBring(u, j)) /\ poll'[j] = poll[j]
      BY <1>1, <1>2 DEF MayBring
    <2>2. LatePolls(u)' \subseteq LatePolls(u) \ {k}
      BY <2>1, <1>5 DEF LatePolls, Polls
    <2>3. Ahead(u)' <= Ahead(u)
      <3>1. \A j \in Polls : poll'[j].active /\ MayBring(u, j)' => poll[j].active /\ MayBring(u, j)
        BY <2>1, <1>2
      <3>2. Polls' = Polls
        BY DEF Polls
      <3>3. Ahead(u)' = 1 => Ahead(u) = 1
        BY <1>1, <3>1, <3>2 DEF Ahead
      <3> QED BY <3>3, <1>t, CountsTyped
    <2>4. GivenAtMost(u) /\ again'[u] = again[u] /\ given'[u] = given[u]
      BY <1>1 DEF GivenInv
    <2>5. CASE u \notin poll[k].parsed
      <3>1. given'[u] + delivering'[u] <= given[u] + delivering[u] /\ again'[u] >= again[u]
        BY <1>1, <2>4, <2>5, <1>t, CountsTyped
      <3> QED BY <1>t, <1>3, <2>2, <2>3, <2>4, <3>1, NothingComes
    <2>6. CASE u \in poll[k].parsed
      <3>1. delivering'[u] = delivering[u] + 1 /\ MayBring(u, k)
        BY <1>1, <2>6 DEF MayBring
      <3>2. CASE ~poll[k].active
        <4>1. k \in LatePolls(u)
          BY <3>1, <3>2 DEF LatePolls
        <4>2. /\ IsFiniteSet(LatePolls(u) \ {k})
              /\ Cardinality(LatePolls(u) \ {k}) = Cardinality(LatePolls(u)) - 1
          BY <4>1, LateIsFinite, FS_RemoveElement
        <4>3. Cardinality(LatePolls(u)') <= Cardinality(LatePolls(u)) - 1
          BY <2>2, <4>2, FS_Subset
        <4> QED BY <2>3, <2>4, <3>1, <4>3, <1>t, CountsTyped DEF GivenAtMost
      <3>3. CASE poll[k].active
        <4>1. current \in BotPollers /\ poll[k].of = current /\ u <= offset[current]
          BY <3>3, <2>6, <1>1, <1>t DEF PollOrder
        <4>2. current # NoPoller /\ offset[current] \in Nat
          BY <4>1, <1>t, TelegramBounds DEF TelegramTypeOK
        <4>3. Ahead(u) = 1
          BY <3>1, <3>3, <4>2 DEF Ahead
        <4>4. \A j \in Polls : ~poll'[j].active
          BY <3>3, <1>2 DEF GivenInv, OneAwaited
        <4>5. Ahead(u)' = 0
          <5>1. ~(u > offset[current])
            BY <4>1, <4>2, <1>t, CountsTyped
          <5>2. Polls' = Polls /\ current' = current /\ offset' = offset
            BY <1>1 DEF Polls
          <5> QED BY <4>4, <5>1, <5>2 DEF Ahead
        <4>6. Cardinality(LatePolls(u)') <= Cardinality(LatePolls(u))
          BY <2>2, LateIsFinite, FS_Subset
        <4> QED BY <2>4, <3>1, <4>3, <4>5, <4>6, <1>t, CountsTyped DEF GivenAtMost
      <3> QED BY <3>2, <3>3
    <2> QED BY <2>5, <2>6
  <1> QED BY <1>3, <1>4, <1>6, <1>7 DEF GivenInv

\* Where every poll is over, only a request to come may bring an update.
LEMMA NoPollIsLate ==
    ASSUME NEW u, \A k \in Polls : ~poll'[k].active /\ ~MayBring(u, k)'
    PROVE  /\ Cardinality(LatePolls(u)') = 0
           /\ Ahead(u)' = 1 => current' # NoPoller /\ u > offset'[current'] /\ u > confirmed'
  <1>1. LatePolls(u)' = {} /\ Polls' = Polls
    BY DEF LatePolls, Polls
  <1> QED BY <1>1, FS_EmptySet DEF Ahead

\* A new adapter begins at the start; what it can bring again is counted.
LEMMA TokenChangesCount ==
    ASSUME GivenInv, TokenChanges PROVE GivenInv'
  <1>t. TelegramTypeOK
    BY DEF GivenInv
  <1>1. /\ installs < MaxInstalls /\ installs' = installs + 1
        /\ current' \in {NoPoller} \cup {p \in BotPollers \ {current} : \A k \in Polls : poll[k].of # p}
        /\ poll' = [k \in Polls |->
               IF poll[k].at = "asking" THEN [poll[k] EXCEPT !.active = FALSE] ELSE NoPoll]
        /\ offset' = [p \in BotPollers |-> IF p = current' THEN 0 ELSE offset[p]]
        /\ again' = [u \in Updates |->
               IF u > confirmed /\ current' # NoPoller THEN again[u] + 1 ELSE again[u]]
        /\ discarded' = discarded \cup Late(current)
        /\ UNCHANGED <<sent, confirmed, delivering, given, outages>>
    BY DEF TokenChanges
  <1>2. ASSUME NEW k \in Polls
        PROVE  /\ poll'[k] \in Poll /\ PollOrder(k)' /\ ~poll'[k].active
               /\ \A u : ~MayBring(u, k)'
    <2>1. poll[k] \in Poll /\ PollOrder(k)
      BY PollTypes
    <2>2. CASE poll[k].at # "asking"
      <3>1. poll'[k] = NoPoll
        BY <1>1, <2>2
      <3>2. /\ NoPoll.at = "off" /\ NoPoll.active = FALSE /\ NoPoll.parsed = {}
            /\ NoPoll.unparsed = {} /\ NoPoll \in Poll
        BY TelegramBounds DEF NoPoll
      <3> QED BY <3>1, <3>2 DEF PollOrder, MayBring
    <2>3. CASE poll[k].at = "asking"
      <3>1. PICK r : r = [poll[k] EXCEPT !.active = FALSE]
        OBVIOUS
      <3>2. /\ r \in Poll /\ r.at = "asking" /\ r.of = poll[k].of /\ r.active = FALSE
            /\ r.parsed = poll[k].parsed /\ r.unparsed = poll[k].unparsed
        BY <2>1, <2>3, <3>1 DEF Poll
      <3>3. poll'[k] = r /\ poll[k].parsed = {} /\ poll[k].unparsed = {}
        BY <1>1, <2>1, <2>3, <3>1 DEF PollOrder
      <3>4. poll[k].of \in BotPollers /\ poll[k].of # current'
        BY <1>1, <2>1, <2>3, TelegramBounds DEF PollOrder
      <3> QED BY <3>2, <3>3, <3>4 DEF PollOrder, MayBring
    <2> QED BY <2>2, <2>3
  <1>3. TelegramTypeOK'
    <2>1. poll' \in [Polls -> Poll]
      BY <1>1, <1>2
    <2>2. offset' \in [BotPollers -> 0..MaxUpdates] /\ again' \in [Updates -> Nat]
      BY <1>1, <1>t, TelegramBounds DEF TelegramTypeOK
    <2>3. installs' \in 0..MaxInstalls
      BY <1>1, <1>t, TelegramBounds DEF TelegramTypeOK
    <2>4. Late(current) \subseteq Updates
      BY <1>t DEF Late, Awaited, TelegramTypeOK, Poll
    <2> QED BY <1>1, <1>t, <2>1, <2>2, <2>3, <2>4 DEF TelegramTypeOK
  <1>4. OneAwaited'
    BY <1>2 DEF OneAwaited
  <1>5. ASSUME NEW u \in Updates PROVE GivenAtMost(u)'
    <2>1. /\ Cardinality(LatePolls(u)') = 0
          /\ Ahead(u)' = 1 => current' # NoPoller /\ u > confirmed
      BY <1>1, <1>2, NoPollIsLate
    <2>2. /\ GivenAtMost(u) /\ given'[u] = given[u] /\ delivering'[u] = delivering[u]
          /\ again'[u] = IF u > confirmed /\ current' # NoPoller THEN again[u] + 1 ELSE again[u]
      BY <1>1 DEF GivenInv
    <2> QED BY <2>1, <2>2, <1>t, CountsTyped DEF GivenAtMost
  <1> QED BY <1>2, <1>3, <1>4, <1>5 DEF GivenInv

\* So does the first adapter of a restarted daemon.
LEMMA RestartCounts ==
    ASSUME GivenInv, DaemonRestarts PROVE GivenInv'
  <1>t. TelegramTypeOK
    BY DEF GivenInv
  <1>1. /\ installs < MaxInstalls /\ installs' = installs + 1
        /\ poll' = [k \in Polls |-> NoPoll]
        /\ offset' = [p \in BotPollers |-> 0]
        /\ delivering' = [u \in Updates |-> 0]
        /\ again' = [u \in Updates |-> IF u > confirmed THEN again[u] + 1 ELSE again[u]]
        /\ discarded' = discarded \cup {u \in Updates : delivering[u] > 0} \cup Late(current)
        /\ UNCHANGED <<sent, confirmed, current, given, outages>>
    BY DEF DaemonRestarts
  <1>2. ASSUME NEW k \in Polls
        PROVE  PollOrder(k)' /\ ~poll'[k].active /\ \A u : ~MayBring(u, k)'
    <2>1. poll'[k] = NoPoll
      BY <1>1
    <2>2. NoPoll.at = "off" /\ NoPoll.active = FALSE /\ NoPoll.parsed = {} /\ NoPoll.unparsed = {}
      BY DEF NoPoll
    <2> QED BY <2>1, <2>2 DEF PollOrder, MayBring
  <1>3. TelegramTypeOK'
    <2>1. poll' \in [Polls -> Poll]
      BY <1>1, TelegramBounds
    <2>2. offset' \in [BotPollers -> 0..MaxUpdates] /\ again' \in [Updates -> Nat]
          /\ delivering' \in [Updates -> Nat]
      BY <1>1, <1>t, TelegramBounds DEF TelegramTypeOK
    <2>3. installs' \in 0..MaxInstalls
      BY <1>1, <1>t, TelegramBounds DEF TelegramTypeOK
    <2>4. Late(current) \subseteq Updates
      BY <1>t DEF Late, Awaited, TelegramTypeOK, Poll
    <2> QED BY <1>1, <1>t, <2>1, <2>2, <2>3, <2>4 DEF TelegramTypeOK
  <1>4. OneAwaited'
    BY <1>2 DEF OneAwaited
  <1>5. ASSUME NEW u \in Updates PROVE GivenAtMost(u)'
    <2>1. Cardinality(LatePolls(u)') = 0 /\ (Ahead(u)' = 1 => u > confirmed)
      BY <1>1, <1>2, NoPollIsLate
    <2>2. /\ GivenAtMost(u) /\ given'[u] = given[u] /\ delivering'[u] = 0
          /\ again'[u] = IF u > confirmed THEN again[u] + 1 ELSE again[u]
      BY <1>1 DEF GivenInv
    <2> QED BY <2>1, <2>2, <1>t, CountsTyped DEF GivenAtMost
  <1> QED BY <1>2, <1>3, <1>4, <1>5 DEF GivenInv

\* Nothing changes for the polls.
LEMMA PollsAlone ==
    ASSUME GivenInv, TelegramTypeOK', UNCHANGED <<confirmed, current, offset, poll, again>>,
           \A u \in Updates : given'[u] + delivering'[u] = given[u] + delivering[u]
    PROVE  GivenInv'
  <1>1. \A k \in Polls : PollOrder(k)'
    BY DEF GivenInv, PollOrder
  <1>2. OneAwaited'
    BY DEF GivenInv, OneAwaited
  <1>3. ASSUME NEW u \in Updates PROVE GivenAtMost(u)'
    <2>1. LatePolls(u)' = LatePolls(u) /\ Ahead(u)' = Ahead(u)
      BY DEF LatePolls, Ahead, MayBring, Polls
    <2>2. GivenAtMost(u) /\ given'[u] + delivering'[u] = given[u] + delivering[u]
      BY DEF GivenInv
    <2> QED BY <2>1, <2>2 DEF GivenAtMost
  <1> QED BY <1>1, <1>2, <1>3 DEF GivenInv

\* A delivery moves an update from being delivered to given.
LEMMA DeliveriesCount ==
    ASSUME GivenInv, UserSends \/ \E u \in Updates : DeliveryEnds(u) PROVE GivenInv'
  <1>t. TelegramTypeOK
    BY DEF GivenInv
  <1>1. CASE UserSends
    <2>1. TelegramTypeOK'
      BY <1>1, <1>t, TelegramBounds DEF UserSends, TelegramTypeOK
    <2> QED BY <1>1, <2>1, PollsAlone DEF UserSends
  <1>2. ASSUME NEW u \in Updates, DeliveryEnds(u) PROVE GivenInv'
    <2>1. /\ delivering[u] > 0 /\ delivering' = [delivering EXCEPT ![u] = @ - 1]
          /\ given' = [given EXCEPT ![u] = @ + 1]
          /\ UNCHANGED <<sent, confirmed, current, offset, poll, again, discarded, installs, outages>>
      BY <1>2 DEF DeliveryEnds
    <2>2. delivering \in [Updates -> Nat] /\ given \in [Updates -> Nat]
      BY <1>t DEF TelegramTypeOK
    <2>3. delivering' \in [Updates -> Nat] /\ given' \in [Updates -> Nat]
      BY <2>1, <2>2
    <2>4. TelegramTypeOK'
      BY <1>t, <2>1, <2>3 DEF TelegramTypeOK
    <2>5. \A v \in Updates : given'[v] + delivering'[v] = given[v] + delivering[v]
      BY <2>1, <2>2
    <2> QED BY <2>1, <2>4, <2>5, PollsAlone
  <1> QED BY <1>1, <1>2

\* The invariant holds before the first poll.
LEMMA TelegramStarts ==
    ASSUME TelegramInit PROVE GivenInv
  <1>1. /\ poll = [k \in Polls |-> NoPoll] /\ current \in BotPollers
        /\ delivering = [u \in Updates |-> 0] /\ given = [u \in Updates |-> 0]
        /\ again = [u \in Updates |-> 0]
    BY TelegramBounds DEF TelegramInit
  <1>2. TelegramTypeOK
    <2>1. 0 \in 0..MaxInstalls /\ 0 \in 0..MaxOutages
      BY TelegramBounds
    <2> QED BY <1>1, <2>1, TelegramBounds DEF TelegramInit, TelegramTypeOK
  <1>3. ASSUME NEW k \in Polls
        PROVE  PollOrder(k) /\ ~poll[k].active /\ \A u : ~MayBring(u, k)
    <2>1. poll[k] = NoPoll
      BY <1>1
    <2>2. NoPoll.at = "off" /\ NoPoll.active = FALSE /\ NoPoll.parsed = {} /\ NoPoll.unparsed = {}
      BY DEF NoPoll
    <2> QED BY <2>1, <2>2 DEF PollOrder, MayBring
  <1>4. ASSUME NEW u \in Updates PROVE GivenAtMost(u)
    <2>1. LatePolls(u) = {}
      BY <1>3 DEF LatePolls
    <2>2. given[u] = 0 /\ delivering[u] = 0 /\ again[u] = 0 /\ Ahead(u) \in 0..1
      BY <1>1 DEF Ahead
    <2> QED BY <2>1, <2>2, FS_EmptySet DEF GivenAtMost
  <1> QED BY <1>2, <1>3, <1>4 DEF GivenInv, OneAwaited

\* Every step keeps it.
LEMMA TelegramStep ==
    ASSUME GivenInv, [TelegramNext]_telegramVars PROVE GivenInv'
  <1>1. CASE UNCHANGED telegramVars
    <2>1. TelegramTypeOK'
      BY <1>1 DEF telegramVars, GivenInv, TelegramTypeOK
    <2> QED BY <1>1, <2>1, PollsAlone DEF telegramVars
  <1>2. CASE TelegramNext
    BY <1>2, PollBeginsOnce, RequestSteps, ParseSteps, DeadlineCounts, CollectCounts,
       TokenChangesCount, RestartCounts, DeliveriesCount DEF TelegramNext, ThreadStep
  <1> QED BY <1>1, <1>2

\* The types of the poller model.
THEOREM TelegramTypeCorrect == TelegramSpec => []TelegramTypeOK
  <1>1. TelegramInit => GivenInv
    BY TelegramStarts
  <1>2. GivenInv /\ [TelegramNext]_telegramVars => GivenInv'
    BY TelegramStep
  <1>3. GivenInv => TelegramTypeOK
    BY DEF GivenInv
  <1> QED BY <1>1, <1>2, <1>3, PTL DEF TelegramSpec

\* GivenOnce, for any number of updates, names of pollers, tokens and outages: the broker
\* gets an update once, and once more for each poll given up that had asked for it and
\* each new adapter that finds it unconfirmed.
THEOREM GivenOnceHolds == TelegramSpec => []GivenOnce
  <1>1. TelegramInit => GivenInv
    BY TelegramStarts
  <1>2. GivenInv /\ [TelegramNext]_telegramVars => GivenInv'
    BY TelegramStep
  <1>3. GivenInv => GivenOnce
    <2> SUFFICES ASSUME GivenInv, NEW u \in Updates
                 PROVE  given[u] + delivering[u] <= 1 + again[u]
      BY DEF GivenOnce
    <2>1. GivenAtMost(u) /\ TelegramTypeOK
      BY DEF GivenInv
    <2> QED BY <2>1, CountsTyped DEF GivenAtMost
  <1> QED BY <1>1, <1>2, <1>3, PTL DEF TelegramSpec

-----------------------------------------------------------------------------
(* OutboundDedupe: nothing is delivered in the window of another delivery.    *)

SendTypes ==
    /\ mode \in {"plain", "completion"} /\ now \in Nat
    /\ call = [c \in Sends |-> call[c]]
    /\ work \in [Sends -> {"none", "open", "sent", "failed"}]
    /\ started \in [Sends -> Nat] /\ ended \in [Sends -> Nat]
    /\ reservation \in [by : Sends \cup {NoSend}, at : Nat, result : Sends \cup {NoSend}]

\* Nothing began later than now.
Began(b) == work[b] # "none" => started[b] <= now

\* Plain mode: what is under the key is at least as young as b, or some send cleared it.
PlainWindow(b) ==
    mode = "plain" /\ work[b] \in {"open", "sent"} =>
        \/ CutShort(b)
        \/ reservation.by # NoSend /\ reservation.at >= started[b]
        \/ now - started[b] > Window

\* Completion mode: the reservation is b's own until its window is over.
CompletionWindow(b) ==
    mode = "completion" /\ InWindow(b) =>
        /\ reservation.by = b
        /\ work[b] = "open" => reservation.at = started[b] /\ reservation.result = NoSend
        /\ work[b] = "sent" => reservation.at = ended[b] /\ reservation.result = b

DedupeInv ==
    /\ SendTypes
    /\ \A b \in Sends : Began(b) /\ PlainWindow(b) /\ CompletionWindow(b)

\* The invariant holds before the first send.
LEMMA DedupeStarts ==
    ASSUME DedupeInit PROVE DedupeInv
  <1>1. MaxSends \in Nat /\ Modes \subseteq {"plain", "completion"}
    BY DedupeAssumption
  <1> QED
    BY <1>1 DEF DedupeInit, DedupeInv, SendTypes, Began, PlainWindow, CompletionWindow,
       InWindow, NoReservation, Sends, NoSend

\* Time ages the key and every send alike.
LEMMA ClockKeepsWindows ==
    ASSUME DedupeInv, ClockTicks PROVE DedupeInv'
  <1>1. SendTypes'
    BY DEF DedupeInv, SendTypes, ClockTicks
  <1>2. ASSUME NEW b \in Sends PROVE Began(b)' /\ PlainWindow(b)' /\ CompletionWindow(b)'
    <2>1. /\ Began(b) /\ PlainWindow(b) /\ CompletionWindow(b)
          /\ now \in Nat /\ now' = now + 1 /\ started[b] \in Nat /\ ended[b] \in Nat
          /\ UNCHANGED <<mode, reservation, call, work, started, ended>>
          /\ Window \in Nat /\ Cap \in Nat /\ work[b] \in {"none", "open", "sent", "failed"}
          /\ mode \in {"plain", "completion"}
      BY DedupeAssumption DEF DedupeInv, SendTypes, ClockTicks
    <2>2. Began(b)'
      BY <2>1 DEF Began
    <2>3. PlainWindow(b)'
      BY <2>1 DEF PlainWindow, CutShort
    <2>4. InWindow(b)' => InWindow(b)
      BY <2>1 DEF InWindow
    <2>5. CompletionWindow(b)'
      BY <2>1, <2>4 DEF CompletionWindow
    <2> QED BY <2>2, <2>3, <2>5
  <1> QED BY <1>1, <1>2 DEF DedupeInv

\* A duplicate, or a caller that is cancelled, leaves the key alone.
LEMMA CallersKeepWindows ==
    ASSUME DedupeInv, NEW c \in Sends, Suppressed(c) \/ SenderCancelled(c) PROVE DedupeInv'
  <1>1. /\ UNCHANGED <<mode, now, reservation, work, started, ended>>
        /\ call' = [call EXCEPT ![c] = call'[c]]
    BY DEF Suppressed, SenderCancelled, DedupeInv, SendTypes
  <1> QED BY <1>1 DEF DedupeInv, SendTypes, Began, PlainWindow, CompletionWindow, CutShort, InWindow

\* Only a delivery that begins starts anything, and it begins only where no window is open.
LEMMA NoWindowUnreserved ==
    ASSUME DedupeInv, NEW b \in Sends, ~Reserved, InWindow(b)
    PROVE  mode = "plain" /\ CutShort(b)
  <1>1. /\ PlainWindow(b) /\ CompletionWindow(b)
        /\ now \in Nat /\ started[b] \in Nat /\ ended[b] \in Nat /\ Window \in Nat /\ Cap \in Nat
        /\ work[b] \in {"none", "open", "sent", "failed"} /\ mode \in {"plain", "completion"}
        /\ reservation.at \in Nat /\ b # NoSend
    BY DedupeAssumption DEF DedupeInv, SendTypes, Sends, NoSend
  <1>2. reservation.by # NoSend => reservation # NoReservation
    BY DEF NoReservation
  <1>3. CASE mode = "plain"
    BY <1>1, <1>2, <1>3 DEF PlainWindow, InWindow, Reserved, Lifetime
  <1>4. CASE mode = "completion"
    <2>1. CASE work[b] = "open"
      BY <1>1, <1>2, <1>4, <2>1 DEF CompletionWindow, InWindow, Reserved, Lifetime
    <2>2. CASE work[b] = "sent"
      BY <1>1, <1>2, <1>4, <2>2 DEF CompletionWindow, InWindow, Reserved, Lifetime
    <2> QED BY <1>1, <1>4, <2>1, <2>2 DEF InWindow
  <1> QED BY <1>1, <1>3, <1>4

\* A delivery takes the key only when no other holds it.
LEMMA DeliverKeepsWindows ==
    ASSUME DedupeInv, NEW c \in Sends, Deliver(c) PROVE DedupeInv'
  <1>1. /\ reservation' = [by |-> c, at |-> now, result |-> NoSend]
        /\ call' = [call EXCEPT ![c] = "delivering"]
        /\ work' = [work EXCEPT ![c] = "open"] /\ started' = [started EXCEPT ![c] = now]
        /\ UNCHANGED <<mode, now, ended>> /\ ~Reserved
    BY DEF Deliver
  <1>2. SendTypes'
    BY <1>1 DEF DedupeInv, SendTypes
  <1>3. ASSUME NEW b \in Sends PROVE Began(b)' /\ PlainWindow(b)' /\ CompletionWindow(b)'
    <2>1. /\ Began(b) /\ now \in Nat /\ started[b] \in Nat /\ ended[b] \in Nat
          /\ c # NoSend /\ Window \in Nat /\ Cap \in Nat
          /\ work[b] \in {"none", "open", "sent", "failed"} /\ mode \in {"plain", "completion"}
      <3>1. /\ now \in Nat /\ started[b] \in Nat /\ ended[b] \in Nat
            /\ work[b] \in {"none", "open", "sent", "failed"} /\ mode \in {"plain", "completion"}
        BY DEF DedupeInv, SendTypes
      <3>2. Began(b)
        BY DEF DedupeInv
      <3>3. c # NoSend /\ Window \in Nat /\ Cap \in Nat
        BY DedupeAssumption DEF Sends, NoSend
      <3> QED BY <3>1, <3>2, <3>3
    <2>2. CASE b = c
      <3>1. work'[b] = "open" /\ started'[b] = now /\ now' = now
        BY <1>1, <2>2 DEF DedupeInv, SendTypes
      <3> QED BY <1>1, <2>1, <2>2, <3>1 DEF Began, PlainWindow, CompletionWindow
    <2>3. CASE b # c
      <3>1. /\ work'[b] = work[b] /\ started'[b] = started[b] /\ ended'[b] = ended[b]
            /\ now' = now /\ mode' = mode
        BY <1>1, <2>3 DEF DedupeInv, SendTypes
      <3>2. InWindow(b)' = InWindow(b)
        BY <3>1, <2>1 DEF InWindow
      <3>3. Began(b)'
        BY <3>1, <2>1 DEF Began
      <3>4. PlainWindow(b)'
        BY <1>1, <2>1, <3>1 DEF PlainWindow, Began
      <3>5. CompletionWindow(b)'
        BY <1>1, <3>1, <3>2, NoWindowUnreserved DEF CompletionWindow
      <3> QED BY <3>3, <3>4, <3>5
    <2> QED BY <2>2, <2>3
  <1> QED BY <1>2, <1>3 DEF DedupeInv

\* What a delivery that ends leaves of the windows of the others.
LEMMA EndsKeepsWindows ==
    ASSUME DedupeInv, NEW c \in Sends, Delivered(c) \/ DeliveryFails(c) PROVE DedupeInv'
  <1>1. /\ work[c] = "open" /\ ended' = [ended EXCEPT ![c] = now]
        /\ UNCHANGED <<mode, now, started>>
        /\ call' = [call EXCEPT ![c] = IF @ = "delivering" THEN "returned" ELSE @]
    BY DEF Delivered, DeliveryFails, Ended
  <1>2. \/ /\ work' = [work EXCEPT ![c] = "sent"] /\ Delivered(c)
        \/ /\ work' = [work EXCEPT ![c] = "failed"] /\ DeliveryFails(c)
    BY DEF Delivered, DeliveryFails, Ended
  <1>3. /\ now \in Nat /\ Window \in Nat /\ Cap \in Nat /\ mode \in {"plain", "completion"}
        /\ c # NoSend /\ NoSend \in Sends \cup {NoSend} /\ SendTypes
    <2>1. now \in Nat /\ mode \in {"plain", "completion"} /\ SendTypes
      BY DEF DedupeInv, SendTypes
    <2>2. Window \in Nat /\ Cap \in Nat
      BY DedupeAssumption
    <2>3. c # NoSend
      BY DEF Sends, NoSend
    <2> QED BY <2>1, <2>2, <2>3
  <1>4. reservation' \in [by : Sends \cup {NoSend}, at : Nat, result : Sends \cup {NoSend}]
    <2>1. NoReservation \in [by : Sends \cup {NoSend}, at : Nat, result : Sends \cup {NoSend}]
      BY DEF NoReservation
    <2>2. PICK t \in Nat : t = IF mode = "completion" THEN now ELSE reservation.at
      BY <1>3 DEF SendTypes
    <2>3. \/ reservation' = reservation \/ reservation' = NoReservation
          \/ reservation' = [reservation EXCEPT !.result = c, !.at = t]
      BY <2>2 DEF Delivered, DeliveryFails
    <2>4. [reservation EXCEPT !.result = c, !.at = t]
              \in [by : Sends \cup {NoSend}, at : Nat, result : Sends \cup {NoSend}]
      BY <1>3 DEF SendTypes
    <2> QED BY <1>3, <2>1, <2>3, <2>4 DEF SendTypes
  <1>5. SendTypes'
    BY <1>1, <1>2, <1>3, <1>4 DEF SendTypes
  <1>6. ASSUME NEW b \in Sends PROVE Began(b)' /\ PlainWindow(b)' /\ CompletionWindow(b)'
    <2>1. /\ Began(b) /\ PlainWindow(b) /\ CompletionWindow(b) /\ Began(c) /\ CompletionWindow(c)
          /\ started[b] \in Nat /\ ended[b] \in Nat /\ started[c] \in Nat /\ b # NoSend
          /\ work[b] \in {"none", "open", "sent", "failed"}
      BY <1>3 DEF DedupeInv, SendTypes, Sends, NoSend
    <2>2. /\ started'[b] = started[b] /\ now' = now /\ mode' = mode
          /\ b # c => work'[b] = work[b] /\ ended'[b] = ended[b]
          /\ work'[c] \in {"sent", "failed"} /\ ended'[c] = now
          /\ \A a \in Sends \ {c} : work'[a] = work[a] /\ ended'[a] = ended[a]
      BY <1>1, <1>2, <1>3 DEF SendTypes
    <2>3. Began(b)'
      BY <2>1, <2>2, <1>1 DEF Began
    <2>4. CutShort(b) => CutShort(b)'
      BY <2>2, <1>1 DEF CutShort
    <2>5. CASE Delivered(c)
      <3>1. /\ work'[c] = "sent" /\ work[c] = "open"
            /\ reservation' =
                 IF ~Settles(c) \/ reservation = NoReservation THEN reservation
                 ELSE [reservation EXCEPT !.result = c, !.at = IF mode = "completion" THEN now ELSE @]
        BY <2>5, <1>3 DEF Delivered, Ended, SendTypes
      <3>2. PlainWindow(b)'
        <4>1. CASE mode = "plain"
          <5>1. reservation'.by = reservation.by /\ reservation'.at = reservation.at
            BY <3>1, <1>3, <4>1 DEF SendTypes
          <5>2. work'[b] \in {"open", "sent"} => work[b] \in {"open", "sent"}
            BY <2>2, <3>1
          <5> QED BY <2>1, <2>2, <2>4, <5>1, <5>2 DEF PlainWindow
        <4> QED BY <4>1, <2>2 DEF PlainWindow
      <3>3. CompletionWindow(b)'
        <4> SUFFICES ASSUME mode = "completion", InWindow(b)' PROVE CompletionWindow(b)'
          BY <2>2 DEF CompletionWindow
        <4>1. CASE b = c
          <5>1. InWindow(b)
            BY <4>1, <2>1, <2>2, <3>1, <1>3 DEF InWindow
          <5>2. reservation.by = c /\ reservation # NoReservation /\ Settles(c)
            BY <4>1, <5>1, <2>1, <1>3 DEF CompletionWindow, Settles, NoReservation
          <5>3. reservation'.by = c /\ reservation'.at = now /\ reservation'.result = c
            BY <5>2, <3>1, <1>3 DEF SendTypes
          <5> QED BY <4>1, <5>3, <2>2, <3>1 DEF CompletionWindow
        <4>2. CASE b # c
          <5>1. InWindow(b)
            BY <4>2, <2>1, <2>2 DEF InWindow
          <5>2. reservation.by = b /\ ~Settles(c)
            BY <4>2, <5>1, <2>1 DEF CompletionWindow, Settles
          <5> QED BY <4>2, <5>1, <5>2, <2>1, <2>2, <3>1 DEF CompletionWindow
        <4> QED BY <4>1, <4>2
      <3> QED BY <2>3, <3>2, <3>3
    <2>6. CASE DeliveryFails(c)
      <3>1. /\ work'[c] = "failed"
            /\ reservation' = IF Settles(c) THEN NoReservation ELSE reservation
        BY <2>6, <1>3 DEF DeliveryFails, Ended, SendTypes
      <3>2. PlainWindow(b)'
        <4> SUFFICES ASSUME mode = "plain", work'[b] \in {"open", "sent"} PROVE PlainWindow(b)'
          BY <2>2 DEF PlainWindow
        <4>1. b # c /\ work[b] \in {"open", "sent"} /\ started[b] <= now
          BY <2>1, <2>2, <3>1 DEF Began
        <4>2. CutShort(b)'
          BY <4>1, <2>2, <3>1 DEF CutShort
        <4> QED BY <4>2 DEF PlainWindow
      <3>3. CompletionWindow(b)'
        <4> SUFFICES ASSUME mode = "completion", InWindow(b)' PROVE CompletionWindow(b)'
          BY <2>2 DEF CompletionWindow
        <4>1. b # c
          BY <2>1, <2>2, <3>1 DEF InWindow
        <4>2. InWindow(b)
          BY <4>1, <2>1, <2>2 DEF InWindow
        <4>3. reservation.by = b /\ ~Settles(c)
          BY <4>1, <4>2, <2>1 DEF CompletionWindow, Settles
        <4> QED BY <4>1, <4>2, <4>3, <2>1, <2>2, <3>1 DEF CompletionWindow
      <3> QED BY <2>3, <3>2, <3>3
    <2> QED BY <2>5, <2>6
  <1> QED BY <1>5, <1>6 DEF DedupeInv

\* Every step keeps the invariant.
LEMMA DedupeStep ==
    ASSUME DedupeInv, [DedupeNext]_dedupeVars PROVE DedupeInv'
  <1>1. CASE UNCHANGED dedupeVars
    BY <1>1 DEF dedupeVars, DedupeInv, SendTypes, Began, PlainWindow, CompletionWindow,
       CutShort, InWindow
  <1>2. CASE DedupeNext
    BY <1>2, ClockKeepsWindows, CallersKeepWindows, DeliverKeepsWindows, EndsKeepsWindows
       DEF DedupeNext
  <1> QED BY <1>1, <1>2

\* OncePerWindow, for any number of sends, any window, cap and bound of the clock: within
\* the window of a delivery that has not failed, deliver_deduped begins no other; in plain
\* mode, unless a send that failed had cleared the key meanwhile.
THEOREM OncePerWindowHolds == DedupeSpec => OncePerWindow
  <1>1. DedupeInit => DedupeInv
    BY DedupeStarts
  <1>2. DedupeInv /\ [DedupeNext]_dedupeVars => DedupeInv'
    BY DedupeStep
  <1>3. ASSUME DedupeInv, DedupeNext
        PROVE  \A b, c \in Sends : SendStarts(c) /\ InWindow(b) => mode = "plain" /\ CutShort(b)
    <2> SUFFICES ASSUME NEW b \in Sends, NEW c \in Sends, SendStarts(c), InWindow(b)
                 PROVE  mode = "plain" /\ CutShort(b)
      OBVIOUS
    <2>1. PICK d \in Sends : \/ Suppressed(d) \/ Deliver(d) \/ SenderCancelled(d)
                             \/ Delivered(d) \/ DeliveryFails(d) \/ ClockTicks
      BY <1>3 DEF DedupeNext
    <2>2. ~Reserved
      BY <2>1, <1>3 DEF SendStarts, Suppressed, Deliver, SenderCancelled, Delivered, DeliveryFails,
         Ended, ClockTicks, DedupeInv, SendTypes
    <2> QED BY <1>3, <2>2, NoWindowUnreserved
  <1>4. DedupeInv /\ [DedupeNext]_dedupeVars
          => [\A b, c \in Sends : SendStarts(c) /\ InWindow(b) => mode = "plain" /\ CutShort(b)]_dedupeVars
    BY <1>3
  <1> QED BY <1>1, <1>2, <1>4, PTL DEF DedupeSpec, OncePerWindow

-----------------------------------------------------------------------------
(* The approval gate                                                         *)

\* Every row was counted on the request when it was created.
HoldsCounted == request.holds = Cardinality(HeldRows)

\* A cycle of questions that goes on has an attempt left, and a question under way is one
\* of such a cycle.
AttemptsLeft ==
    /\ request.mode = "retrying" => request.tries < MaxTries
    /\ asking # Nobody => request.mode = "retrying"

\* A message whose handler has still to decide, to hold it or to route it is in no row, and
\* the session has not got it.
NotHeldYet ==
    \A m \in Messages : handler[m] \in {"absent", "onboarding", "routing"} =>
        m \notin HeldRows /\ \A i \in DOMAIN handed : handed[i] # m

\* The key's flush lock.
OneFlusher == \E p \in Flushers : flush[p] = NoFlush

\* Flush p has a stretch of rows before it that begins behind row d.
FlushFrom(p, d) ==
    flush[p] = NoFlush \/ \E n \in (d + 1)..Len(held) : flush[p].todo = (d + 1)..n

\* "retries only the undelivered suffix": what is delivered is the first d rows, and a
\* flush goes on behind them.
Checkpointed ==
    \E d \in 0..Len(held) :
        /\ delivered = {held[i] : i \in 1..d}
        /\ \A p \in Flushers : FlushFrom(p, d)

\* A held message that the session has was checkpointed, or is the one a flush is about
\* to checkpoint, or its flush died between the two.
RowsHandedOver ==
    \A i \in DOMAIN handed : handed[i] \in HeldRows =>
        \/ handed[i] \in delivered \cup doubted
        \/ \E p \in Flushers : flush[p].routed /\ handed[i] = NextHeld(p)

GateOrder == NotHeldYet /\ OneFlusher /\ Checkpointed /\ RowsHandedOver /\ HeldInOrder

GateInv == ApprovalTypeOK /\ HoldsCounted /\ AttemptsLeft /\ GateOrder

\* What the assumption on the constants says, in the forms the proofs need.
LEMMA GateBounds ==
    /\ MaxMessages \in Nat /\ Reprompts \in Nat /\ MaxDecisions \in Nat /\ MaxMishaps \in Nat
    /\ MaxTries \in Nat \ {0} /\ ManyHolds \in Nat \ {0}
    /\ IsFiniteSet(Messages) /\ Cardinality(Messages) = MaxMessages
    /\ Nobody \notin Notifiers /\ Loop \in Notifiers /\ Messages \subseteq Nat
  <1>1. MaxMessages \in Nat /\ Reprompts \in Nat /\ MaxDecisions \in Nat /\ MaxMishaps \in Nat
    BY ApprovalAssumption
  <1>2. MaxTries \in Nat \ {0} /\ ManyHolds \in Nat \ {0}
    BY ApprovalAssumption
  <1>3. IsFiniteSet(Messages) /\ Cardinality(Messages) = MaxMessages
    BY <1>1, FS_Interval DEF Messages
  <1>4. Nobody \notin Notifiers /\ Loop \in Notifiers /\ Messages \subseteq Nat
    BY <1>1 DEF Nobody, Notifiers, Loop, Messages
  <1> QED BY <1>1, <1>2, <1>3, <1>4

\* The head of a flush at work is the row behind the delivered ones.
LEMMA NextIsHeld ==
    ASSUME ApprovalTypeOK, NEW d \in 0..Len(held), NEW p \in Flushers, FlushFrom(p, d),
           flush[p] # NoFlush
    PROVE  /\ Oldest(p) = d + 1
           /\ d + 1 \in DOMAIN held
           /\ NextHeld(p) = held[d + 1]
           /\ flush[p].todo \subseteq DOMAIN held
  <1>1. PICK n \in (d + 1)..Len(held) : flush[p].todo = (d + 1)..n
    BY DEF FlushFrom
  <1>2. Len(held) \in Nat /\ DOMAIN held = 1..Len(held) /\ d \in Nat
    BY DEF ApprovalTypeOK
  <1>3. flush[p].todo \subseteq Nat /\ flush[p].todo # {} /\ d + 1 \in flush[p].todo
    <2>1. n \in Nat /\ d + 1 \in Nat /\ d + 1 <= n
      BY <1>2
    <2>2. (d + 1)..n \subseteq Nat /\ d + 1 \in (d + 1)..n
      BY <2>1
    <2> QED BY <1>1, <2>2
  <1>4. Min(flush[p].todo) \in (d + 1)..n /\ Min(flush[p].todo) <= d + 1
    BY <1>1, <1>3, MinIsIn
  <1>5. Oldest(p) = d + 1
    BY <1>2, <1>4 DEF Oldest
  <1> QED BY <1>1, <1>2, <1>5 DEF NextHeld

\* The invariant does not depend on gate, request, clock and owner; a handler may go on as
\* long as none is back among the undecided.
LEMMA OrderFrame ==
    ASSUME ApprovalTypeOK, GateOrder,
           UNCHANGED <<held, delivered, flush, handed, doubted>>,
           \A m \in Messages : handler'[m] \in {"absent", "onboarding", "routing"} =>
               handler[m] \in {"absent", "onboarding", "routing"}
    PROVE  GateOrder'
  <1>1. UNCHANGED HeldRows /\ \A p \in Flushers : NextHeld(p)' = NextHeld(p)
    BY DEF HeldRows, NextHeld, Oldest
  <1>2. NotHeldYet'
    BY <1>1 DEF NotHeldYet, GateOrder
  <1>3. OneFlusher' /\ Checkpointed'
    BY DEF GateOrder, OneFlusher, Checkpointed, FlushFrom
  <1>4. RowsHandedOver'
    BY <1>1 DEF GateOrder, RowsHandedOver
  <1>5. HeldInOrder'
    BY <1>1 DEF GateOrder, HeldInOrder
  <1> QED BY <1>2, <1>3, <1>4, <1>5 DEF GateOrder

\* Holding a message: its row is the last one.
LEMMA HoldOrder ==
    ASSUME ApprovalTypeOK, GateOrder, NEW m \in Messages, HoldRow(m),
           handler[m] \in {"absent", "onboarding"},
           UNCHANGED <<delivered, flushVars>>
    PROVE  GateOrder'
  <1>1. /\ held \in Seq(Messages) /\ handed \in Seq(Messages)
        /\ held' = Append(held, m) /\ handler' = [handler EXCEPT ![m] = "notifying"]
        /\ handler \in [Messages -> {"absent", "onboarding", "notifying", "routing", "gone"}]
        /\ UNCHANGED <<delivered, flush, handed, doubted>>
    BY DEF ApprovalTypeOK, HoldRow, Becomes, flushVars
  <1>2. /\ Len(held') = Len(held) + 1 /\ Len(held) \in Nat
        /\ DOMAIN held' = 1..(Len(held) + 1) /\ DOMAIN held = 1..Len(held)
        /\ held'[Len(held) + 1] = m
        /\ \A i \in 1..Len(held) : held'[i] = held[i]
    BY <1>1
  <1>3. HeldRows' = HeldRows \cup {m}
    BY <1>2 DEF HeldRows
  <1>4. m \notin HeldRows /\ \A i \in DOMAIN handed : handed[i] # m
    BY DEF GateOrder, NotHeldYet
  <1>5. NotHeldYet'
    BY <1>1, <1>3 DEF NotHeldYet, GateOrder
  <1>6. OneFlusher'
    BY <1>1 DEF OneFlusher, GateOrder
  <1>7. PICK d \in 0..Len(held) :
          /\ delivered = {held[i] : i \in 1..d}
          /\ \A p \in Flushers : FlushFrom(p, d)
    BY DEF GateOrder, Checkpointed
  <1>8. \A p \in Flushers : FlushFrom(p, d)'
    BY <1>1, <1>2, <1>7 DEF FlushFrom
  <1>9. d \in 0..Len(held') /\ delivered' = {held'[i] : i \in 1..d}
    <2>1. \A i \in 1..d : held'[i] = held[i]
      BY <1>2, <1>7
    <2>2. {held'[i] : i \in 1..d} = {held[i] : i \in 1..d}
      BY <2>1
    <2>3. d \in 0..(Len(held) + 1)
      BY <1>2
    <2> QED BY <1>1, <1>2, <1>7, <2>2, <2>3
  <1>10. Checkpointed'
    BY <1>8, <1>9 DEF Checkpointed
  <1>11. \A p \in Flushers : flush[p].routed => flush[p] # NoFlush /\ NextHeld(p)' = NextHeld(p)
    <2> SUFFICES ASSUME NEW p \in Flushers, flush[p].routed
                 PROVE  flush[p] # NoFlush /\ NextHeld(p)' = NextHeld(p)
      OBVIOUS
    <2>1. flush[p] # NoFlush
      BY DEF NoFlush
    <2>2. Oldest(p) = d + 1 /\ d + 1 \in DOMAIN held
      BY <2>1, <1>7, NextIsHeld
    <2>3. Oldest(p)' = Oldest(p)
      BY <1>1 DEF Oldest
    <2> QED BY <2>1, <2>2, <2>3, <1>2 DEF NextHeld
  <1>12. RowsHandedOver'
    BY <1>1, <1>3, <1>4, <1>11 DEF RowsHandedOver, GateOrder
  <1>13. HeldInOrder'
    BY <1>1, <1>2, <1>3, <1>4 DEF HeldInOrder, GateOrder
  <1> QED BY <1>5, <1>6, <1>10, <1>12, <1>13 DEF GateOrder

\* A live message is in no row and will not be.
LEMMA LiveOrder ==
    ASSUME ApprovalTypeOK, GateOrder, NEW m \in Messages, RouteLive(m)
    PROVE  GateOrder'
  <1>1. /\ held \in Seq(Messages) /\ handed \in Seq(Messages)
        /\ handler \in [Messages -> {"absent", "onboarding", "notifying", "routing", "gone"}]
        /\ handler[m] = "routing" /\ handler' = [handler EXCEPT ![m] = "gone"]
        /\ UNCHANGED <<held, delivered, flush, doubted>>
    BY DEF ApprovalTypeOK, RouteLive, Becomes, approvalTables
  <1>2. m \notin HeldRows
    BY <1>1 DEF GateOrder, NotHeldYet
  <1>3. CASE UNCHANGED handed
    BY <1>1, <1>3, OrderFrame
  <1>4. CASE handed' = Append(handed, m)
    <2>1. /\ Len(handed) \in Nat /\ DOMAIN handed = 1..Len(handed)
          /\ DOMAIN handed' = 1..(Len(handed) + 1) /\ handed'[Len(handed) + 1] = m
          /\ \A i \in 1..Len(handed) : handed'[i] = handed[i]
      BY <1>1, <1>4
    <2>2. UNCHANGED HeldRows /\ \A p \in Flushers : NextHeld(p)' = NextHeld(p)
      BY <1>1 DEF HeldRows, NextHeld, Oldest
    <2>3. NotHeldYet'
      BY <1>1, <2>1, <2>2 DEF NotHeldYet, GateOrder
    <2>4. OneFlusher' /\ Checkpointed'
      <3>1. OneFlusher'
        BY <1>1 DEF GateOrder, OneFlusher
      <3>2. PICK d \in 0..Len(held) :
              /\ delivered = {held[i] : i \in 1..d}
              /\ \A q \in Flushers : FlushFrom(q, d)
        BY DEF GateOrder, Checkpointed
      <3>3. \A q \in Flushers : FlushFrom(q, d)'
        BY <1>1, <3>2 DEF FlushFrom
      <3>4. Checkpointed'
        BY <1>1, <3>2, <3>3 DEF Checkpointed
      <3> QED BY <3>1, <3>4
    <2>5. RowsHandedOver'
      BY <1>1, <1>2, <2>1, <2>2 DEF GateOrder, RowsHandedOver
    <2>6. HeldInOrder'
      BY <1>1, <1>2, <2>1, <2>2 DEF GateOrder, HeldInOrder
    <2> QED BY <2>3, <2>4, <2>5, <2>6 DEF GateOrder
  <1> QED BY <1>3, <1>4 DEF RouteLive

\* A flush begins: only one, and behind what is delivered.
LEMMA StartOrder ==
    ASSUME ApprovalTypeOK, GateOrder, NEW p \in Flushers, Unlocked, StartFlush(p),
           UNCHANGED <<held, delivered, handler, handed, doubted>>
    PROVE  GateOrder' /\ flush' \in [Flushers -> [todo : SUBSET DOMAIN held, routed : BOOLEAN]]
  <1>1. /\ held \in Seq(Messages) /\ handed \in Seq(Messages)
        /\ flush \in [Flushers -> [todo : SUBSET DOMAIN held, routed : BOOLEAN]]
        /\ \A i, j \in DOMAIN held : held[i] = held[j] => i = j
    BY DEF ApprovalTypeOK
  <1>2. CASE Waiting = {}
    <2>1. UNCHANGED flush
      BY <1>2 DEF StartFlush
    <2> QED BY <2>1, <1>1, OrderFrame
  <1>3. CASE Waiting # {}
    <2>1. PICK d \in 0..Len(held) : delivered = {held[i] : i \in 1..d}
      BY DEF GateOrder, Checkpointed
    <2>2. Len(held) \in Nat /\ DOMAIN held = 1..Len(held)
      BY <1>1
    <2>3. Waiting = (d + 1)..Len(held)
      <3>1. ASSUME NEW i \in 1..Len(held) PROVE held[i] \in delivered <=> i \in 1..d
        <4>1. ASSUME held[i] \in delivered PROVE i \in 1..d
          <5>1. PICK k \in 1..d : held[i] = held[k]
            BY <2>1, <4>1
          <5>2. k \in DOMAIN held /\ i \in DOMAIN held
            BY <2>1, <2>2, <3>1
          <5>3. i = k
            BY <1>1, <5>1, <5>2
          <5> QED BY <5>1, <5>3
        <4>2. ASSUME i \in 1..d PROVE held[i] \in delivered
          BY <2>1, <4>2
        <4> QED BY <4>1, <4>2
      <3>2. Waiting = {i \in 1..Len(held) : i \notin 1..d}
        BY <3>1, <2>2 DEF Waiting
      <3> QED BY <3>2, <2>1, <2>2
    <2>4. d + 1 <= Len(held)
      BY <1>3, <2>1, <2>2, <2>3
    <2>5. flush' = [flush EXCEPT ![p] = [todo |-> Waiting, routed |-> FALSE]]
      BY <1>3 DEF StartFlush
    <2>6. flush' \in [Flushers -> [todo : SUBSET DOMAIN held, routed : BOOLEAN]]
      BY <1>1, <2>5 DEF Waiting
    <2>7. \A q \in Flushers : (q # p => flush'[q] = NoFlush) /\ ~flush'[q].routed
      <3>1. \A q \in Flushers : flush[q] = NoFlush /\ ~flush[q].routed
        BY DEF Unlocked, NoFlush
      <3>2. flush'[p] = [todo |-> Waiting, routed |-> FALSE]
        BY <1>1, <2>5
      <3>3. \A q \in Flushers \ {p} : flush'[q] = flush[q]
        BY <1>1, <2>5
      <3> QED BY <3>1, <3>2, <3>3
    <2>8. OneFlusher'
      BY <2>7 DEF OneFlusher, Flushers
    <2>9. flush'[p].todo = (d + 1)..Len(held) /\ Len(held) \in (d + 1)..Len(held)
      BY <1>1, <2>1, <2>2, <2>3, <2>4, <2>5
    <2>10. \A q \in Flushers : FlushFrom(q, d)'
      BY <2>7, <2>9 DEF FlushFrom
    <2>11. Checkpointed'
      BY <2>1, <2>10 DEF Checkpointed
    <2>12. UNCHANGED HeldRows
      BY DEF HeldRows
    <2>13. NotHeldYet'
      BY <2>12 DEF NotHeldYet, GateOrder
    <2>14. \A q \in Flushers : ~flush[q].routed
      BY DEF Unlocked, NoFlush
    <2>15. RowsHandedOver'
      BY <2>12, <2>14 DEF RowsHandedOver, GateOrder
    <2>16. HeldInOrder'
      BY <2>12 DEF HeldInOrder, GateOrder
    <2> QED BY <2>6, <2>8, <2>11, <2>13, <2>15, <2>16 DEF GateOrder
  <1> QED BY <1>2, <1>3

\* ... or has to wait for the lock.
LEMMA EnterOrder ==
    ASSUME ApprovalTypeOK, GateOrder, NEW p \in Flushers, EnterFlush(p),
           UNCHANGED <<held, delivered, handler, handed, doubted>>
    PROVE  GateOrder' /\ flush' \in [Flushers -> [todo : SUBSET DOMAIN held, routed : BOOLEAN]]
  <1>1. CASE Unlocked
    BY <1>1, StartOrder DEF EnterFlush
  <1>2. CASE ~Unlocked
    BY <1>2, OrderFrame DEF EnterFlush, ApprovalTypeOK
  <1> QED BY <1>1, <1>2

\* The flush hands over the row behind the delivered ones; whatever else of the rows the
\* session has is delivered.
LEMMA RouteOrder ==
    ASSUME ApprovalTypeOK, GateOrder, NEW p \in Flushers, RouteHeld(p)
    PROVE  /\ GateOrder'
           /\ flush' \in [Flushers -> [todo : SUBSET DOMAIN held, routed : BOOLEAN]]
           /\ handed' \in Seq(Messages)
  <1>1. /\ held \in Seq(Messages) /\ handed \in Seq(Messages)
        /\ flush \in [Flushers -> [todo : SUBSET DOMAIN held, routed : BOOLEAN]]
        /\ \A i, j \in DOMAIN held : held[i] = held[j] => i = j
        /\ flush[p] # NoFlush /\ ~flush[p].routed
        /\ handed' = Append(handed, NextHeld(p))
        /\ flush' = [flush EXCEPT ![p].routed = TRUE]
        /\ UNCHANGED <<held, delivered, handler, doubted>>
    BY DEF ApprovalTypeOK, RouteHeld, approvalTables
  <1>2. PICK d \in 0..Len(held) :
          /\ delivered = {held[i] : i \in 1..d}
          /\ \A q \in Flushers : FlushFrom(q, d)
    BY DEF GateOrder, Checkpointed
  <1>3. /\ Oldest(p) = d + 1 /\ d + 1 \in DOMAIN held /\ NextHeld(p) = held[d + 1]
    BY <1>1, <1>2, NextIsHeld
  <1>4. /\ Len(held) \in Nat /\ DOMAIN held = 1..Len(held) /\ d \in Nat
        /\ NextHeld(p) \in Messages /\ NextHeld(p) \in HeldRows
    BY <1>1, <1>2, <1>3 DEF HeldRows
  <1>5. /\ handed' \in Seq(Messages) /\ Len(handed) \in Nat /\ DOMAIN handed = 1..Len(handed)
        /\ DOMAIN handed' = 1..(Len(handed) + 1) /\ handed'[Len(handed) + 1] = NextHeld(p)
        /\ \A i \in 1..Len(handed) : handed'[i] = handed[i]
    BY <1>1, <1>4
  <1>6. flush'[p] = [flush[p] EXCEPT !.routed = TRUE] /\ \A q \in Flushers \ {p} : flush'[q] = flush[q]
    BY <1>1
  <1>7. flush'[p].todo = flush[p].todo /\ flush'[p].routed
    BY <1>1, <1>6
  <1>8. flush' \in [Flushers -> [todo : SUBSET DOMAIN held, routed : BOOLEAN]]
    <2>1. flush[p] \in [todo : SUBSET DOMAIN held, routed : BOOLEAN]
      BY <1>1
    <2>2. PICK e : e = [flush[p] EXCEPT !.routed = TRUE]
      OBVIOUS
    <2>3. e \in [todo : SUBSET DOMAIN held, routed : BOOLEAN]
      BY <2>1, <2>2
    <2>4. flush' = [flush EXCEPT ![p] = e]
      BY <1>1, <2>2
    <2> QED BY <1>1, <2>3, <2>4
  <1>9. UNCHANGED HeldRows /\ \A q \in Flushers : NextHeld(q)' = NextHeld(q)
    BY <1>1, <1>6, <1>7 DEF HeldRows, NextHeld, Oldest
  <1>10. \A q \in Flushers \ {p} : flush[q] = NoFlush
    BY <1>1 DEF GateOrder, OneFlusher, Flushers
  <1>11. NotHeldYet'
    BY <1>1, <1>4, <1>5, <1>9 DEF NotHeldYet, GateOrder
  <1>12. OneFlusher'
    BY <1>1, <1>6, <1>10 DEF OneFlusher, GateOrder
  <1>13. \A q \in Flushers : FlushFrom(q, d)'
    BY <1>1, <1>2, <1>6, <1>7 DEF FlushFrom
  <1>14. Checkpointed'
    BY <1>1, <1>2, <1>13 DEF Checkpointed
  <1>15. \A i \in DOMAIN handed : handed[i] \in HeldRows => handed[i] \in delivered \cup doubted
    BY <1>1, <1>10 DEF GateOrder, RowsHandedOver, NoFlush
  <1>16. RowsHandedOver'
    BY <1>1, <1>5, <1>7, <1>9, <1>15 DEF RowsHandedOver
  <1>17. ASSUME NEW i \in DOMAIN handed, handed[i] \in HeldRows
         PROVE  \/ handed[i] \in doubted
                \/ \E k, l \in DOMAIN held : k < l /\ held[k] = handed[i] /\ held[l] = NextHeld(p)
    <2>1. CASE handed[i] \in delivered
      <3>1. PICK k \in 1..d : handed[i] = held[k]
        BY <2>1, <1>2
      <3>2. k \in DOMAIN held /\ k < d + 1
        BY <1>3, <1>4
      <3> QED BY <3>1, <3>2, <1>3
    <2> QED BY <1>15, <1>17, <2>1
  <1>18. HeldInOrder'
    <2> SUFFICES ASSUME NEW i \in DOMAIN handed', NEW j \in DOMAIN handed', i < j,
                        {handed'[i], handed'[j]} \subseteq HeldRows
                 PROVE  \/ handed'[i] \in doubted
                        \/ \E k, l \in DOMAIN held :
                              k < l /\ held[k] = handed'[i] /\ held[l] = handed'[j]
      BY <1>1, <1>9 DEF HeldInOrder
    <2>1. i \in DOMAIN handed /\ handed'[i] = handed[i] /\ handed[i] \in HeldRows
      BY <1>5
    <2>2. CASE j \in DOMAIN handed
      BY <2>1, <2>2, <1>5 DEF GateOrder, HeldInOrder
    <2>3. CASE j = Len(handed) + 1
      BY <2>1, <2>3, <1>5, <1>17
    <2> QED BY <2>2, <2>3, <1>5
  <1> QED BY <1>5, <1>8, <1>11, <1>12, <1>14, <1>16, <1>18 DEF GateOrder

\* The checkpoint moves on by the flush's next row.
LEMMA MarkOrder ==
    ASSUME ApprovalTypeOK, GateOrder, NEW p \in Flushers, MarkRow(p)
    PROVE  /\ GateOrder'
           /\ flush' \in [Flushers -> [todo : SUBSET DOMAIN held, routed : BOOLEAN]]
           /\ delivered' \subseteq HeldRows
  <1>1. /\ held \in Seq(Messages) /\ handed \in Seq(Messages)
        /\ flush \in [Flushers -> [todo : SUBSET DOMAIN held, routed : BOOLEAN]]
        /\ delivered \subseteq HeldRows
        /\ flush[p] # NoFlush
        /\ delivered' = delivered \cup {NextHeld(p)}
        /\ UNCHANGED <<held, handler, handed, doubted>>
    BY DEF ApprovalTypeOK, MarkRow
  <1>2. PICK d \in 0..Len(held) :
          /\ delivered = {held[i] : i \in 1..d}
          /\ \A q \in Flushers : FlushFrom(q, d)
    BY DEF GateOrder, Checkpointed
  <1>3. /\ Oldest(p) = d + 1 /\ d + 1 \in DOMAIN held /\ NextHeld(p) = held[d + 1]
    BY <1>1, <1>2, NextIsHeld
  <1>4. /\ Len(held) \in Nat /\ DOMAIN held = 1..Len(held) /\ d \in Nat
        /\ NextHeld(p) \in HeldRows
    BY <1>1, <1>2, <1>3 DEF HeldRows
  <1>5. d + 1 \in 0..Len(held) /\ 1..(d + 1) = 1..d \cup {d + 1}
    BY <1>3, <1>4
  <1>6. delivered' = {held[i] : i \in 1..(d + 1)}
    BY <1>1, <1>2, <1>3, <1>5
  <1>7. PICK n \in (d + 1)..Len(held) : flush[p].todo = (d + 1)..n
    BY <1>1, <1>2 DEF FlushFrom
  <1>8. \/ n = d + 1 /\ flush' = [flush EXCEPT ![p] = NoFlush]
        \/ /\ n \in (d + 2)..Len(held)
           /\ flush' = [flush EXCEPT ![p] = [todo |-> (d + 2)..n, routed |-> FALSE]]
    <2>1. CASE flush[p].todo = {Oldest(p)}
      <3>1. (d + 1)..n = {d + 1}
        BY <2>1, <1>3, <1>7
      <3>2. d + 1 \in Int /\ n \in Int /\ d + 1 <= n
        BY <1>4, <1>7
      <3>3. n \in (d + 1)..n
        BY <3>2
      <3>4. n = d + 1
        BY <3>1, <3>3
      <3> QED BY <2>1, <3>4 DEF MarkRow
    <2>2. CASE flush[p].todo # {Oldest(p)}
      <3>1. n # d + 1
        BY <2>2, <1>3, <1>4, <1>7
      <3>2. n \in (d + 2)..Len(held) /\ flush[p].todo \ {Oldest(p)} = (d + 2)..n
        BY <3>1, <1>3, <1>4, <1>7
      <3>3. flush' = [flush EXCEPT ![p] = [todo |-> flush[p].todo \ {Oldest(p)}, routed |-> FALSE]]
        BY <1>1, <2>2 DEF MarkRow
      <3> QED BY <3>2, <3>3
    <2> QED BY <2>1, <2>2
  <1>9. /\ flush' \in [Flushers -> [todo : SUBSET DOMAIN held, routed : BOOLEAN]]
        /\ ~flush'[p].routed
        /\ \A q \in Flushers \ {p} : flush'[q] = flush[q]
    <2>1. NoFlush \in [todo : SUBSET DOMAIN held, routed : BOOLEAN] /\ ~NoFlush.routed
      BY DEF NoFlush
    <2>2. \A k \in 1..Len(held) : (d + 2)..k \subseteq DOMAIN held
      BY <1>4
    <2>3. PICK e \in [todo : SUBSET DOMAIN held, routed : BOOLEAN] :
            ~e.routed /\ flush' = [flush EXCEPT ![p] = e]
      <3>1. CASE flush' = [flush EXCEPT ![p] = NoFlush]
        BY <3>1, <2>1
      <3>2. CASE n \in (d + 2)..Len(held)
                 /\ flush' = [flush EXCEPT ![p] = [todo |-> (d + 2)..n, routed |-> FALSE]]
        <4>1. [todo |-> (d + 2)..n, routed |-> FALSE] \in [todo : SUBSET DOMAIN held, routed : BOOLEAN]
          BY <1>4, <1>7, <2>2
        <4> QED BY <3>2, <4>1
      <3> QED BY <3>1, <3>2, <1>8
    <2> QED BY <1>1, <2>3
  <1>10. \A q \in Flushers \ {p} : flush[q] = NoFlush
    BY <1>1 DEF GateOrder, OneFlusher, Flushers
  <1>11. FlushFrom(p, d + 1)'
    BY <1>1, <1>4, <1>8 DEF FlushFrom
  <1>12. Checkpointed'
    <2>1. \A q \in Flushers : FlushFrom(q, d + 1)'
      BY <1>9, <1>10, <1>11 DEF FlushFrom
    <2> QED BY <1>1, <1>5, <1>6, <2>1 DEF Checkpointed
  <1>13. OneFlusher'
    BY <1>9, <1>10, <1>1 DEF OneFlusher, Flushers
  <1>14. UNCHANGED HeldRows
    BY <1>1 DEF HeldRows
  <1>15. NotHeldYet'
    BY <1>1, <1>14 DEF NotHeldYet, GateOrder
  <1>16. RowsHandedOver'
    BY <1>1, <1>10, <1>14 DEF RowsHandedOver, GateOrder, NoFlush
  <1>17. HeldInOrder'
    BY <1>1, <1>14 DEF HeldInOrder, GateOrder
  <1> QED BY <1>1, <1>4, <1>9, <1>12, <1>13, <1>15, <1>16, <1>17 DEF GateOrder

\* A flush that is refused has handed nothing over since its last checkpoint.
LEMMA RefusedOrder ==
    ASSUME ApprovalTypeOK, GateOrder, NEW p \in Flushers, RouteRefused(p)
    PROVE  GateOrder' /\ flush' \in [Flushers -> [todo : SUBSET DOMAIN held, routed : BOOLEAN]]
  <1>1. /\ flush \in [Flushers -> [todo : SUBSET DOMAIN held, routed : BOOLEAN]]
        /\ ~flush[p].routed
        /\ flush' = [flush EXCEPT ![p] = NoFlush]
        /\ UNCHANGED <<held, delivered, handler, handed, doubted>>
    BY DEF ApprovalTypeOK, RouteRefused, approvalTables
  <1>2. NoFlush \in [todo : SUBSET DOMAIN held, routed : BOOLEAN]
    BY DEF NoFlush
  <1>3. flush' \in [Flushers -> [todo : SUBSET DOMAIN held, routed : BOOLEAN]]
    BY <1>1, <1>2
  <1>4. UNCHANGED HeldRows /\ \A q \in Flushers \ {p} : flush'[q] = flush[q] /\ NextHeld(q)' = NextHeld(q)
    BY <1>1 DEF HeldRows, NextHeld, Oldest
  <1>5. NotHeldYet'
    BY <1>1, <1>4 DEF NotHeldYet, GateOrder
  <1>6. OneFlusher'
    BY <1>1 DEF OneFlusher, GateOrder
  <1>7. Checkpointed'
    BY <1>1 DEF Checkpointed, FlushFrom, GateOrder
  <1>8. RowsHandedOver'
    BY <1>1, <1>4 DEF RowsHandedOver, GateOrder
  <1>9. HeldInOrder'
    BY <1>1, <1>4 DEF HeldInOrder, GateOrder
  <1> QED BY <1>3, <1>5, <1>6, <1>7, <1>8, <1>9 DEF GateOrder

\* The daemon dies: what a flush had handed over and not checkpointed is in doubt.
LEMMA DiesOrder ==
    ASSUME ApprovalTypeOK, GateOrder, BrokerDies
    PROVE  /\ GateOrder'
           /\ flush' \in [Flushers -> [todo : SUBSET DOMAIN held, routed : BOOLEAN]]
           /\ doubted' \subseteq HeldRows
  <1>1. /\ flush \in [Flushers -> [todo : SUBSET DOMAIN held, routed : BOOLEAN]]
        /\ handler \in [Messages -> {"absent", "onboarding", "notifying", "routing", "gone"}]
        /\ doubted \subseteq HeldRows
        /\ flush' = [p \in Flushers |-> NoFlush]
        /\ handler' = [m \in Messages |-> IF handler[m] = "absent" THEN "absent" ELSE "gone"]
        /\ doubted' = doubted \cup {NextHeld(p) : p \in {q \in Flushers : flush[q].routed}}
        /\ UNCHANGED <<held, delivered, handed>>
    BY DEF ApprovalTypeOK, BrokerDies, approvalTables
  <1>2. NoFlush \in [todo : SUBSET DOMAIN held, routed : BOOLEAN]
    BY DEF NoFlush
  <1>3. UNCHANGED HeldRows
    BY <1>1 DEF HeldRows
  <1>4. PICK d \in 0..Len(held) :
          /\ delivered = {held[i] : i \in 1..d}
          /\ \A q \in Flushers : FlushFrom(q, d)
    BY DEF GateOrder, Checkpointed
  <1>5. \A p \in Flushers : flush[p].routed => NextHeld(p) \in HeldRows
    <2> SUFFICES ASSUME NEW p \in Flushers, flush[p].routed PROVE NextHeld(p) \in HeldRows
      OBVIOUS
    <2>1. flush[p] # NoFlush
      BY DEF NoFlush
    <2>2. d + 1 \in DOMAIN held /\ NextHeld(p) = held[d + 1]
      BY <2>1, <1>4, NextIsHeld
    <2> QED BY <2>2 DEF HeldRows
  <1>6. doubted' \subseteq HeldRows
    BY <1>1, <1>5
  <1>7. NotHeldYet'
    BY <1>1, <1>3 DEF NotHeldYet, GateOrder
  <1>8. OneFlusher'
    BY <1>1 DEF OneFlusher, Flushers
  <1>9. Checkpointed'
    BY <1>1, <1>4 DEF Checkpointed, FlushFrom
  <1>10. RowsHandedOver'
    BY <1>1, <1>3 DEF RowsHandedOver, GateOrder
  <1>11. HeldInOrder'
    BY <1>1, <1>3 DEF HeldInOrder, GateOrder
  <1> QED BY <1>1, <1>2, <1>6, <1>7, <1>8, <1>9, <1>10, <1>11 DEF GateOrder

GateStages == {"absent", "onboarding", "notifying", "routing", "gone"}

FlushType == [Flushers -> [todo : SUBSET DOMAIN held, routed : BOOLEAN]]

\* The types of what the steps of handlers, flushes and owner change, apart from rows.
LEMMA GateTypesFrame ==
    ASSUME ApprovalTypeOK, HoldsCounted, AttemptsLeft, UNCHANGED held,
           gate' \in {"none", "pending", "approved", "denied"},
           request' \in Request, request'.holds = request.holds,
           request'.mode = request.mode, request'.tries = request.tries,
           delivered' \subseteq HeldRows, UNCHANGED hours,
           handler' \in [Messages -> GateStages],
           owner' \in {"idle", "wait", "flush"},
           loop' \in {"asleep", "settle", "wait", "flush", "due", "ask"},
           flush' \in FlushType, asking' \in {asking, Nobody},
           handed' \in Seq(Messages), doubted' \subseteq HeldRows,
           decisions' \in 0..MaxDecisions, mishaps' \in 0..MaxMishaps
    PROVE  ApprovalTypeOK' /\ HoldsCounted' /\ AttemptsLeft'
  <1>1. UNCHANGED HeldRows
    BY DEF HeldRows
  <1>2. HoldsCounted' /\ AttemptsLeft'
    BY <1>1 DEF HoldsCounted, AttemptsLeft
  <1>3. ApprovalTypeOK'
    BY <1>1 DEF ApprovalTypeOK, GateStages, FlushType
  <1> QED BY <1>2, <1>3

\* The type of the request under the writes that settle it.
LEMMA SettledRequest ==
    ASSUME request \in Request, NEW decision \in {"approved", "denied"}
    PROVE  /\ Settled(decision) \in Request
           /\ Settled(decision).holds = request.holds
           /\ Settled(decision).mode = request.mode
           /\ Settled(decision).tries = request.tries
  BY DEF Settled, Request

\* The handlers of messages whose fate is decided on arrival.
LEMMA ArrivalKeeps ==
    ASSUME GateInv, NEW m \in Messages,
           ArriveDenied(m) \/ ArriveApproved(m) \/ ArriveUnknown(m)
    PROVE  GateInv'
  <1>1. /\ handler \in [Messages -> GateStages] /\ handler[m] = "absent"
        /\ handler' \in [Messages -> GateStages] /\ \A n \in Messages \ {m} : handler'[n] = handler[n]
        /\ gate' \in {"none", "pending", "approved", "denied"}
        /\ UNCHANGED <<request, held, delivered, hours, owner, loop, flush, handed, doubted,
                       asking, decisions, mishaps>>
    BY DEF GateInv, ApprovalTypeOK, GateStages, ArriveDenied, ArriveApproved, ArriveUnknown,
           NextMessage, Becomes, approvalTables, flushVars
  <1>2. GateOrder'
    BY <1>1, OrderFrame DEF GateInv
  <1>3. ApprovalTypeOK' /\ HoldsCounted' /\ AttemptsLeft'
    BY <1>1, GateTypesFrame DEF GateInv, ApprovalTypeOK, FlushType
  <1> QED BY <1>2, <1>3 DEF GateInv

\* Holding a message counts it.
LEMMA HoldKeeps ==
    ASSUME GateInv, NEW m \in Messages, ArrivePending(m) \/ Onboarded(m)
    PROVE  GateInv'
  <1>1. /\ handler \in [Messages -> GateStages] /\ handler[m] \in {"absent", "onboarding"}
        /\ HoldRow(m)
        /\ UNCHANGED <<gate, delivered, hours, owner, loop, flush, handed, doubted, asking,
                       decisions, mishaps>>
    BY DEF GateInv, ApprovalTypeOK, GateStages, ArrivePending, Onboarded, NextMessage, flushVars
  <1>2. GateOrder'
    BY <1>1, HoldOrder DEF GateInv, flushVars
  <1>3. held \in Seq(Messages) /\ held' = Append(held, m)
    BY <1>1 DEF HoldRow, GateInv, ApprovalTypeOK
  <1>4. /\ Len(held) \in Nat /\ DOMAIN held = 1..Len(held)
        /\ DOMAIN held' = 1..(Len(held) + 1) /\ held'[Len(held) + 1] = m
        /\ \A i \in 1..Len(held) : held'[i] = held[i]
    BY <1>3
  <1>5. m \notin HeldRows /\ HeldRows' = HeldRows \cup {m} /\ HeldRows' \subseteq Messages
    <2>1. m \notin HeldRows
      BY <1>1 DEF GateInv, GateOrder, NotHeldYet
    <2>2. HeldRows' = HeldRows \cup {m}
      BY <1>4 DEF HeldRows
    <2>3. HeldRows \subseteq Messages
      BY <1>3, <1>4 DEF HeldRows
    <2> QED BY <2>1, <2>2, <2>3
  <1>6. held' \in Seq(Messages) /\ \A i, j \in DOMAIN held' : held'[i] = held'[j] => i = j
    <2>1. \A i, j \in DOMAIN held : held[i] = held[j] => i = j
      BY DEF GateInv, ApprovalTypeOK
    <2>2. \A i \in DOMAIN held : held[i] # m
      BY <1>5 DEF HeldRows
    <2> QED BY <1>3, <1>4, <2>1, <2>2
  <1>7. IsFiniteSet(HeldRows') /\ Cardinality(HeldRows') \in Nat /\ Cardinality(HeldRows') <= MaxMessages
    BY <1>5, GateBounds, FS_Subset, FS_CardinalityType
  <1>8. Cardinality(HeldRows') = Cardinality(HeldRows) + 1
    <2>1. IsFiniteSet(HeldRows)
      BY <1>5, <1>7, FS_Subset
    <2> QED BY <2>1, <1>5, FS_AddElement
  <1>9. /\ request \in Request /\ request' = [request EXCEPT !.gate = "pending", !.holds = @ + 1]
        /\ request.holds = Cardinality(HeldRows)
    BY <1>1 DEF HoldRow, GateInv, ApprovalTypeOK, HoldsCounted
  <1>10. request.holds \in Nat /\ request.holds + 1 \in 0..MaxMessages
    BY <1>7, <1>8, <1>9, GateBounds DEF Request
  <1>11. /\ request' \in Request /\ request'.holds = request.holds + 1
         /\ request'.mode = request.mode /\ request'.tries = request.tries
    BY <1>9, <1>10 DEF Request
  <1>12. HoldsCounted' /\ AttemptsLeft'
    BY <1>1, <1>8, <1>9, <1>11 DEF HoldsCounted, AttemptsLeft, GateInv
  <1>13. handler' \in [Messages -> GateStages]
    BY <1>1 DEF HoldRow, Becomes, GateStages
  <1>14. flush' \in FlushType'
    <2>1. flush \in FlushType /\ DOMAIN held \subseteq DOMAIN held'
      BY <1>4 DEF GateInv, ApprovalTypeOK, FlushType
    <2> QED BY <1>1, <2>1 DEF FlushType
  <1>15. ApprovalTypeOK'
    BY <1>1, <1>5, <1>6, <1>11, <1>13, <1>14 DEF ApprovalTypeOK, GateInv, GateStages, FlushType
  <1> QED BY <1>2, <1>12, <1>15 DEF GateInv

\* The session takes a message of an approved key, or does not.
LEMMA LiveKeeps ==
    ASSUME GateInv, NEW m \in Messages, RouteLive(m)
    PROVE  GateInv'
  <1>1. /\ handler' \in [Messages -> GateStages]
        /\ handed \in Seq(Messages) /\ handed' \in {handed, Append(handed, m)}
        /\ mishaps' \in 0..MaxMishaps
        /\ UNCHANGED <<gate, request, held, delivered, hours, owner, loop, flush, doubted,
                       asking, decisions>>
    BY GateBounds DEF GateInv, ApprovalTypeOK, GateStages, RouteLive, Becomes, Mishap, approvalTables
  <1>2. handed' \in Seq(Messages)
    BY <1>1
  <1>3. GateOrder'
    BY LiveOrder DEF GateInv
  <1>4. ApprovalTypeOK' /\ HoldsCounted' /\ AttemptsLeft'
    BY <1>1, <1>2, GateTypesFrame DEF GateInv, ApprovalTypeOK, FlushType
  <1> QED BY <1>3, <1>4 DEF GateInv

\* The owner decides; an approval may begin a flush.
LEMMA DecisionKeeps ==
    ASSUME GateInv, Approve \/ Deny \/ Revoke
    PROVE  GateInv'
  <1>1. /\ request' \in Request /\ request'.holds = request.holds
        /\ request'.mode = request.mode /\ request'.tries = request.tries
    BY SettledRequest DEF Approve, Deny, Revoke, GateInv, ApprovalTypeOK
  <1>2. /\ gate' \in {"none", "pending", "approved", "denied"} /\ decisions' \in 0..MaxDecisions
        /\ UNCHANGED <<held, delivered, hours, handler, handed, doubted, asking, mishaps>>
    BY GateBounds DEF Approve, Deny, Revoke, GateInv, ApprovalTypeOK, flushVars
  <1>3. EnterFlush("owner") \/ UNCHANGED <<owner, loop, flush>>
    BY DEF Approve, Deny, Revoke, flushVars
  <1>4. /\ owner' \in {"idle", "wait", "flush"}
        /\ loop' \in {"asleep", "settle", "wait", "flush", "due", "ask"}
    BY <1>3 DEF EnterFlush, StartFlush, Returned, GateInv, ApprovalTypeOK
  <1>5. GateOrder' /\ flush' \in FlushType
    <2>1. CASE EnterFlush("owner")
      BY <2>1, <1>2, EnterOrder DEF GateInv, Flushers, FlushType
    <2>2. CASE UNCHANGED flush
      BY <2>2, <1>2, OrderFrame DEF GateInv, ApprovalTypeOK, FlushType
    <2> QED BY <1>3, <2>1, <2>2
  <1>6. ApprovalTypeOK' /\ HoldsCounted' /\ AttemptsLeft'
    BY <1>1, <1>2, <1>4, <1>5, GateTypesFrame DEF GateInv, ApprovalTypeOK, GateStages
  <1> QED BY <1>5, <1>6 DEF GateInv

\* A flush gets the lock, or the loop settles a backlog and asks for it.
LEMMA FlushBeginsKeeps ==
    ASSUME GateInv, (\E p \in Flushers : FlushBegins(p)) \/ SettleBacklog
    PROVE  GateInv'
  <1>1. /\ request' \in Request /\ request'.holds = request.holds
        /\ request'.mode = request.mode /\ request'.tries = request.tries
    BY SettledRequest DEF FlushBegins, SettleBacklog, GateInv, ApprovalTypeOK, approvalTables
  <1>2. /\ UNCHANGED <<gate, held, delivered, hours, handler, handed, doubted, asking, decisions, mishaps>>
    BY DEF FlushBegins, SettleBacklog, approvalTables
  <1>3. EnterFlush("loop") \/ \E p \in Flushers : Unlocked /\ StartFlush(p)
    BY DEF FlushBegins, SettleBacklog
  <1>4. /\ owner' \in {"idle", "wait", "flush"}
        /\ loop' \in {"asleep", "settle", "wait", "flush", "due", "ask"}
    BY <1>3 DEF EnterFlush, StartFlush, Returned, GateInv, ApprovalTypeOK
  <1>5. GateOrder' /\ flush' \in FlushType
    BY <1>2, <1>3, EnterOrder, StartOrder DEF GateInv, Flushers, FlushType
  <1>6. ApprovalTypeOK' /\ HoldsCounted' /\ AttemptsLeft'
    BY <1>1, <1>2, <1>4, <1>5, GateTypesFrame DEF GateInv, ApprovalTypeOK, GateStages
  <1> QED BY <1>5, <1>6 DEF GateInv

\* A step of a flush that has the lock.
LEMMA FlushKeeps ==
    ASSUME GateInv, NEW p \in Flushers, RouteHeld(p) \/ MarkRow(p) \/ RouteRefused(p)
    PROVE  GateInv'
  <1>1. UNCHANGED <<gate, request, held, hours, handler, doubted, asking, decisions>>
    BY DEF RouteHeld, MarkRow, RouteRefused, approvalTables
  <1>2. /\ owner' \in {"idle", "wait", "flush"}
        /\ loop' \in {"asleep", "settle", "wait", "flush", "due", "ask"}
        /\ mishaps' \in 0..MaxMishaps
    BY GateBounds DEF RouteHeld, MarkRow, RouteRefused, Returned, Mishap, GateInv, ApprovalTypeOK
  <1>3. /\ GateOrder' /\ flush' \in FlushType
        /\ handed' \in Seq(Messages) /\ delivered' \subseteq HeldRows
    <2>1. CASE RouteHeld(p)
      BY <2>1, RouteOrder DEF GateInv, ApprovalTypeOK, RouteHeld, approvalTables, FlushType
    <2>2. CASE MarkRow(p)
      BY <2>2, MarkOrder DEF GateInv, ApprovalTypeOK, MarkRow, FlushType
    <2>3. CASE RouteRefused(p)
      BY <2>3, RefusedOrder DEF GateInv, ApprovalTypeOK, RouteRefused, approvalTables, FlushType
    <2> QED BY <2>1, <2>2, <2>3
  <1>4. ApprovalTypeOK' /\ HoldsCounted' /\ AttemptsLeft'
    BY <1>1, <1>2, <1>3, GateTypesFrame DEF GateInv, ApprovalTypeOK, GateStages
  <1> QED BY <1>3, <1>4 DEF GateInv

\* A notifier finds nothing to say, or the loop takes its next turn.
LEMMA TurnKeeps ==
    ASSUME GateInv, (\E n \in Notifiers : NothingToSay(n)) \/ Snapshot \/ LookForDue
    PROVE  GateInv'
  <1>1. /\ UNCHANGED <<gate, request, held, delivered, hours, owner, flush, handed, doubted,
                       asking, decisions, mishaps>>
    BY DEF NothingToSay, Snapshot, LookForDue, LoopAt, approvalTables, flushVars
  <1>2. /\ handler' \in [Messages -> GateStages]
        /\ \A m \in Messages : handler'[m] \in {handler[m], "gone"}
        /\ loop' \in {"asleep", "settle", "wait", "flush", "due", "ask"}
    BY DEF NothingToSay, Snapshot, LookForDue, LoopAt, NotifierReturns, Becomes, GateInv,
           ApprovalTypeOK, GateStages
  <1>3. GateOrder'
    BY <1>1, <1>2, OrderFrame DEF GateInv
  <1>4. ApprovalTypeOK' /\ HoldsCounted' /\ AttemptsLeft'
    BY <1>1, <1>2, GateTypesFrame DEF GateInv, ApprovalTypeOK, FlushType
  <1> QED BY <1>3, <1>4 DEF GateInv

\* A question begins, or its outcome is recorded.
LEMMA AskKeeps ==
    ASSUME GateInv, (\E n \in Notifiers : Ask(n)) \/ OwnerTold \/ AskFails
    PROVE  GateInv'
  <1>1. /\ UNCHANGED <<gate, held, delivered, owner, flush, handed, doubted, decisions>>
        /\ mishaps' \in 0..MaxMishaps
    BY GateBounds DEF Ask, OwnerTold, AskFails, Mishap, flushVars, GateInv, ApprovalTypeOK
  <1>2. /\ handler' \in [Messages -> GateStages]
        /\ \A m \in Messages : handler'[m] \in {handler[m], "gone"}
        /\ loop' \in {"asleep", "settle", "wait", "flush", "due", "ask"}
    BY DEF Ask, OwnerTold, AskFails, NotifierReturns, Becomes, GateInv, ApprovalTypeOK, GateStages
  <1>3. /\ hours' \in Hours /\ asking' \in Notifiers \cup {Nobody}
    BY DEF Ask, OwnerTold, AskFails, GateInv, ApprovalTypeOK, Hours
  <1>4. GateOrder'
    BY <1>1, <1>2, OrderFrame DEF GateInv
  <1>5. /\ request \in Request /\ hours.age \in 0..Reprompts
        /\ (request.mode = "retrying" => request.tries < MaxTries)
        /\ (asking # Nobody => request.mode = "retrying")
    BY DEF GateInv, ApprovalTypeOK, AttemptsLeft, Hours
  <1>6. /\ request' \in Request /\ request'.holds = request.holds
        /\ (request'.mode = "retrying" => request'.tries < MaxTries)
        /\ (asking' # Nobody => request'.mode = "retrying")
    <2>1. CASE \E n \in Notifiers : Ask(n)
      <3>1. CASE request.mode = "retrying"
        BY <2>1, <3>1, <1>5 DEF Ask
      <3>2. CASE request.mode # "retrying"
        <4>1. request' = [request EXCEPT !.mode = "retrying", !.tries = 0,
                            !.reprompts = IF @ < hours.age THEN @ + 1 ELSE @]
          BY <2>1, <3>2 DEF Ask
        <4>2. PICK k : k = (IF request.reprompts < hours.age THEN request.reprompts + 1
                            ELSE request.reprompts)
          OBVIOUS
        <4>3. k \in 0..Reprompts
          BY <4>2, <1>5, GateBounds DEF Request
        <4>4. request' = [request EXCEPT !.mode = "retrying", !.tries = 0, !.reprompts = k]
          BY <4>1, <4>2
        <4>5. 0 \in 0..MaxTries /\ 0 < MaxTries
          BY GateBounds
        <4> QED BY <4>3, <4>4, <4>5, <1>5 DEF Request
      <3> QED BY <3>1, <3>2
    <2>2. CASE OwnerTold
      <3>1. PICK r : r = [request EXCEPT !.mode = "delivered", !.tries = 0, !.notified = request.holds]
        OBVIOUS
      <3>2. 0 \in 0..MaxTries
        BY GateBounds
      <3>3. r \in Request /\ r.holds = request.holds /\ r.mode = "delivered"
        BY <3>1, <3>2, <1>5 DEF Request
      <3> QED BY <2>2, <3>1, <3>3, <1>5 DEF OwnerTold, Recorded
    <2>3. CASE AskFails
      <3>1. request.mode = "retrying" /\ request.tries < MaxTries
        BY <2>3, <1>5 DEF AskFails
      <3>2. request.tries \in Nat /\ request.tries + 1 \in 0..MaxTries
        BY <3>1, <1>5, GateBounds DEF Request
      <3>3. PICK k : k = (IF request.tries + 1 >= MaxTries THEN "failed" ELSE "retrying")
        OBVIOUS
      <3>4. PICK r : r = [request EXCEPT !.mode = k, !.tries = @ + 1]
        OBVIOUS
      <3>5. /\ r \in Request /\ r.holds = request.holds /\ r.mode = k
            /\ r.tries = request.tries + 1
        BY <3>2, <3>3, <3>4, <1>5 DEF Request
      <3>6. k = "retrying" => request.tries + 1 < MaxTries
        BY <3>2, <3>3, GateBounds
      <3>7. request' \in {r, request} /\ asking' = Nobody
        BY <2>3, <3>3, <3>4 DEF AskFails, Recorded
      <3> QED BY <3>5, <3>6, <3>7, <1>5
    <2> QED BY <2>1, <2>2, <2>3
  <1>7. UNCHANGED HeldRows
    BY <1>1 DEF HeldRows
  <1>8. HoldsCounted' /\ AttemptsLeft'
    BY <1>6, <1>7 DEF HoldsCounted, AttemptsLeft, GateInv
  <1>9. ApprovalTypeOK'
    BY <1>1, <1>2, <1>3, <1>6, <1>7 DEF ApprovalTypeOK, GateInv, GateStages
  <1> QED BY <1>4, <1>8, <1>9 DEF GateInv

\* Time passes.
LEMMA TimeKeeps ==
    ASSUME GateInv, TimePasses
    PROVE  GateInv'
  <1>1. UNCHANGED <<gate, request, held, delivered, handler, owner, loop, flush, handed,
                    doubted, asking, decisions, mishaps>>
    BY DEF TimePasses, approvalTables, flushVars
  <1>2. hours' \in Hours
    <2>1. hours \in Hours /\ hours.age \in 0..Reprompts /\ Reprompts \in Nat
      BY GateBounds DEF GateInv, ApprovalTypeOK, Hours
    <2>2. CASE hours' \in {[hours EXCEPT !.due = TRUE], [hours EXCEPT !.quiet = TRUE]}
      BY <2>1, <2>2 DEF Hours
    <2>3. CASE hours.age < Reprompts /\ hours' = [hours EXCEPT !.age = @ + 1]
      <3>1. PICK k : k = hours.age + 1
        OBVIOUS
      <3>2. k \in 0..Reprompts /\ hours' = [hours EXCEPT !.age = k]
        BY <2>1, <2>3, <3>1
      <3> QED BY <2>1, <3>2 DEF Hours
    <2> QED BY <2>2, <2>3 DEF TimePasses
  <1>3. GateOrder'
    BY <1>1, OrderFrame DEF GateInv
  <1>4. UNCHANGED HeldRows
    BY <1>1 DEF HeldRows
  <1>5. HoldsCounted' /\ AttemptsLeft' /\ ApprovalTypeOK'
    BY <1>1, <1>2, <1>4 DEF HoldsCounted, AttemptsLeft, ApprovalTypeOK, GateInv
  <1> QED BY <1>3, <1>5 DEF GateInv

\* The daemon dies and is started again.
LEMMA BrokerDiesKeeps ==
    ASSUME GateInv, BrokerDies
    PROVE  GateInv'
  <1>1. /\ UNCHANGED <<gate, request, held, delivered, hours, handed, decisions>>
        /\ handler' \in [Messages -> GateStages]
        /\ owner' = "idle" /\ loop' = "asleep" /\ asking' = Nobody /\ mishaps' \in 0..MaxMishaps
    BY GateBounds DEF BrokerDies, Mishap, approvalTables, GateInv, ApprovalTypeOK, GateStages
  <1>2. GateOrder' /\ flush' \in FlushType /\ doubted' \subseteq HeldRows
    BY DiesOrder DEF GateInv, FlushType
  <1>3. ApprovalTypeOK' /\ HoldsCounted' /\ AttemptsLeft'
    BY <1>1, <1>2, GateTypesFrame DEF GateInv, ApprovalTypeOK
  <1> QED BY <1>2, <1>3 DEF GateInv

\* The gate's invariant holds in every state: rows are checkpointed in their order by one
\* flush at a time, and nothing of a row is handed over outside of one.
LEMMA GateInvHolds == ApprovalSpec => []GateInv
  <1>1. ApprovalInit => GateInv
    <2> SUFFICES ASSUME ApprovalInit PROVE GateInv
      OBVIOUS
    <2>1. /\ held = <<>> /\ handed = <<>> /\ delivered = {} /\ doubted = {} /\ HeldRows = {}
          /\ DOMAIN held = {} /\ DOMAIN handed = {} /\ Len(held) = 0
          /\ flush = [p \in Flushers |-> NoFlush]
      BY DEF ApprovalInit, HeldRows
    <2>2. ApprovalTypeOK
      <3>1. NoFlush \in [todo : SUBSET DOMAIN held, routed : BOOLEAN]
        BY DEF NoFlush
      <3>2. request \in Request /\ hours \in Hours
        BY GateBounds DEF ApprovalInit, Request, NoRequest, Hours
      <3>3. held \in Seq(Messages) /\ handed \in Seq(Messages)
        BY <2>1
      <3> QED BY <2>1, <3>1, <3>2, <3>3, GateBounds DEF ApprovalInit, ApprovalTypeOK
    <2>3. HoldsCounted /\ AttemptsLeft
      BY <2>1, FS_EmptySet, GateBounds DEF HoldsCounted, AttemptsLeft, ApprovalInit, NoRequest
    <2>4. NotHeldYet /\ RowsHandedOver /\ HeldInOrder
      BY <2>1 DEF NotHeldYet, RowsHandedOver, HeldInOrder
    <2>5. OneFlusher
      BY <2>1 DEF OneFlusher, Flushers
    <2>6. Checkpointed
      <3>1. 0 \in 0..Len(held) /\ delivered = {held[i] : i \in 1..0}
        BY <2>1
      <3>2. \A p \in Flushers : FlushFrom(p, 0)
        BY <2>1 DEF FlushFrom
      <3> QED BY <3>1, <3>2 DEF Checkpointed
    <2> QED BY <2>2, <2>3, <2>4, <2>5, <2>6 DEF GateInv, GateOrder
  <1>2. GateInv /\ [ApprovalNext]_approvalVars => GateInv'
    <2> SUFFICES ASSUME GateInv, [ApprovalNext]_approvalVars PROVE GateInv'
      OBVIOUS
    <2>1. ASSUME NEW m \in Messages,
                 \/ ArriveDenied(m) \/ ArriveApproved(m) \/ ArrivePending(m) \/ ArriveUnknown(m)
                 \/ HandlerStep(m)
          PROVE  GateInv'
      BY <2>1, ArrivalKeeps, HoldKeeps, LiveKeeps DEF HandlerStep
    <2>2. CASE Approve \/ Deny \/ Revoke
      BY <2>2, DecisionKeeps
    <2>3. ASSUME NEW p \in Flushers, FlushStep(p) \/ RouteRefused(p)
          PROVE  GateInv'
      BY <2>3, FlushBeginsKeeps, FlushKeeps DEF FlushStep
    <2>4. CASE AskStep \/ AskFails
      BY <2>4, AskKeeps, TurnKeeps DEF AskStep
    <2>5. CASE ReconcileStep
      BY <2>5, TurnKeeps, FlushBeginsKeeps DEF ReconcileStep
    <2>6. CASE TimePasses \/ BrokerDies
      BY <2>6, TimeKeeps, BrokerDiesKeeps
    <2>7. CASE UNCHANGED approvalVars
      <3>1. UNCHANGED <<gate, request, held, delivered, hours, handler, owner, loop, flush,
                        handed, doubted, asking, decisions, mishaps>>
        BY <2>7 DEF approvalVars, approvalTables, flushVars
      <3>2. GateOrder'
        BY <3>1, OrderFrame DEF GateInv
      <3>3. ApprovalTypeOK' /\ HoldsCounted' /\ AttemptsLeft'
        BY <3>1, GateTypesFrame DEF GateInv, ApprovalTypeOK, FlushType, GateStages
      <3> QED BY <3>2, <3>3 DEF GateInv
    <2> QED BY <2>1, <2>2, <2>3, <2>4, <2>5, <2>6, <2>7 DEF ApprovalNext
  <1> QED BY <1>1, <1>2, PTL DEF ApprovalSpec

\* Every variable of the approval gate keeps its type; each message has at most one row.
THEOREM GateTypeCorrect == ApprovalSpec => []ApprovalTypeOK
  BY GateInvHolds, PTL DEF GateInv

\* Held messages reach the session in the order they were held and each of them once,
\* whatever flushes race and wherever the daemon dies, except one that was handed over by
\* a flush that died before it could mark it.
THEOREM HeldInOrderHolds == ApprovalSpec => []HeldInOrder
  BY GateInvHolds, PTL DEF GateInv, GateOrder

=============================================================================
