------------------------- MODULE BillingWebhookProofs -------------------------
(***************************************************************************)
(* Theorems about BillingWebhook, for any plans and any number of          *)
(* subscriptions, events, failures and lost answers, delivered in any      *)
(* order.                                                                  *)
(***************************************************************************)
EXTENDS BillingWebhook, SequenceTheorems, TLAPS

----------------------------------------------------------------------------
(* The inductive invariant *)

\* A handler that ran had been the first to see its event.
AppliedWereSeen == \A i \in DOMAIN applied : applied[i] \in processed

\* An event is about a subscription that exists, whose end only moves forward.
EventsLagBehind ==
    \A n \in DOMAIN events :
        /\ events[n].sub \in DOMAIN subscriptions
        /\ events[n].is.end <= subscriptions[events[n].sub].end

\* What is reported ended is in no good standing.
EndedIsCanceled ==
    \A n \in DOMAIN events :
        events[n].type = "deleted" => events[n].is.status = "canceled"

\* Of an only subscription, the last event says what it is now.
LastEventIsNow ==
    Len(subscriptions) = 1 =>
        /\ Len(events) > 0
        /\ events[Len(events)].is = subscriptions[1]

\* The paid-through date is within some subscription's periods ...
DateIsPaidFor ==
    account.until # NoTime =>
        \E s \in DOMAIN subscriptions : account.until <= subscriptions[s].end

\* ... and is known once a subscription has been reported ended.
EndedHasDate ==
    \A i \in DOMAIN applied : events[applied[i]].type = "deleted" => account.until # NoTime

IInv ==
    /\ TypeOK
    /\ AppliedWereSeen
    /\ EffectsOnce
    /\ EventsLagBehind
    /\ EndedIsCanceled
    /\ LastEventIsNow
    /\ DateIsPaidFor
    /\ EndedHasDate
    /\ AccountFollowsStripe

----------------------------------------------------------------------------
(* Lemmas *)

Account == [tier : Ladder, until : Nat \cup {NoTime}, status : Statuses \cup {"none"}]

\* Sequences of some elements are sequences of more of them.
LEMMA SequencesWiden ==
    ASSUME NEW S, NEW T, S \subseteq T, NEW seq \in Seq(S)
    PROVE  seq \in Seq(T)
  <1>1. Len(seq) \in Nat /\ DOMAIN seq = 1..Len(seq) /\ seq \in [1..Len(seq) -> S]
    BY LenProperties
  <1>2. seq \in [1..Len(seq) -> T]
    BY <1>1
  <1> QED
    BY <1>1, <1>2, IsASeq

LEMMA IntervalsMatch ==
    ASSUME NEW m \in Nat, NEW n \in Nat, 1..m = 1..n
    PROVE  m = n
  <1>1. \A k \in 1..m : k <= n
    OBVIOUS
  <1>2. \A k \in 1..n : k <= m
    OBVIOUS
  <1>3. CASE m > n
    BY <1>1, <1>3
  <1>4. CASE n > m
    BY <1>2, <1>4
  <1> QED
    BY <1>3, <1>4

\* What an event leaves of those before it.
LEMMA EmitStep ==
    ASSUME TypeOK, NEW type \in {"checkout", "updated", "deleted"},
           NEW s \in 1..MaxSubscriptions, NEW is \in Subscription, Emit(type, s, is)
    PROVE  /\ events' \in Seq(Event) /\ Len(events') <= MaxEvents
           /\ Len(events) \in Nat /\ Len(events') = Len(events) + 1
           /\ DOMAIN events' = DOMAIN events \cup {Len(events) + 1}
           /\ Len(events) + 1 \notin DOMAIN events
           /\ \A n \in DOMAIN events : events'[n] = events[n]
           /\ events'[Len(events) + 1].sub = s
           /\ events'[Len(events) + 1].is = is
           /\ events'[Len(events) + 1].type = type
           /\ unanswered' \subseteq DOMAIN events'
           /\ processed \subseteq DOMAIN events'
           /\ applied \in Seq(DOMAIN events')
  <1> DEFINE event == [type |-> type, sub |-> s, is |-> is]
  <1>1. /\ events \in Seq(Event) /\ Len(events) \in Nat /\ Len(events) < MaxEvents
        /\ MaxEvents \in Nat /\ DOMAIN events = 1..Len(events)
        /\ unanswered \subseteq DOMAIN events /\ processed \subseteq DOMAIN events
        /\ applied \in Seq(DOMAIN events)
    BY BillingAssumption, LenProperties DEF TypeOK, Emit
  <1>2. event \in Event /\ event.sub = s /\ event.is = is /\ event.type = type
    BY DEF Event
  <1>3. events' = Append(events, event) /\ unanswered' = unanswered \cup {Len(events) + 1}
    BY DEF Emit
  <1> HIDE DEF event
  <1>4. /\ events' \in Seq(Event) /\ Len(events') = Len(events) + 1
        /\ DOMAIN events' = 1..(Len(events) + 1)
        /\ \A n \in DOMAIN events : events'[n] = events[n]
        /\ events'[Len(events) + 1] = event
    BY <1>1, <1>2, <1>3, AppendProperties
  <1>5. /\ DOMAIN events' = DOMAIN events \cup {Len(events) + 1}
        /\ Len(events) + 1 \notin DOMAIN events
    BY <1>1, <1>4
  <1>6. applied \in Seq(DOMAIN events')
    <2>1. DOMAIN events \subseteq DOMAIN events'
      BY <1>5
    <2> QED
      BY <1>1, <2>1, SequencesWiden
  <1> QED
    BY <1>1, <1>2, <1>3, <1>4, <1>5, <1>6

\* An event that no handler has seen is not the last one applied.
LEMMA UnappliedBreaksOrder ==
    ASSUME TypeOK, events' \in Seq(Event), Len(events) \in Nat,
           DOMAIN events' = DOMAIN events \cup {Len(events) + 1},
           Len(events) + 1 \notin DOMAIN events, applied' = applied
    PROVE  applied' # [n \in DOMAIN events' |-> n]
  <1> SUFFICES ASSUME applied = [n \in DOMAIN events' |-> n] PROVE FALSE
    OBVIOUS
  <1>1. Len(events) + 1 \in DOMAIN applied /\ applied[Len(events) + 1] = Len(events) + 1
    OBVIOUS
  <1>2. \A i \in DOMAIN applied : applied[i] \in DOMAIN events
    BY ElementOfSeq, LenProperties DEF TypeOK
  <1> QED
    BY <1>1, <1>2

\* The plan of a handler's account is on the ladder, its date is a date.
LEMMA EffectTyped ==
    ASSUME IInv, NEW n \in DOMAIN events, NEW retrieved \in BOOLEAN
    PROVE  /\ events[n] \in Event /\ events[n].is \in Subscription
           /\ events[n].is.end \in Nat
           /\ events[n].sub \in DOMAIN subscriptions
           /\ subscriptions[events[n].sub] \in Subscription
           /\ subscriptions[events[n].sub].end \in Nat
           /\ account \in Account /\ Effect(events[n], retrieved) \in Account
  <1> DEFINE e == events[n]
  <1>1. e \in Event /\ account \in Account
    BY ElementOfSeq, LenProperties DEF IInv, TypeOK, Account
  <1>2. e.is \in Subscription /\ e.type \in {"checkout", "updated", "deleted"}
    BY <1>1 DEF Event
  <1>3. e.is.end \in Nat /\ e.is.status \in Statuses
    BY <1>2 DEF Subscription
  <1>4. e.sub \in DOMAIN subscriptions
    BY DEF IInv, EventsLagBehind
  <1>5. subscriptions[e.sub] \in Subscription
    BY <1>4, ElementOfSeq, LenProperties DEF IInv, TypeOK
  <1>6. subscriptions[e.sub].end \in Nat
    BY <1>5 DEF Subscription
  <1>7. PlanFrom(e.is) \in Ladder \cup {NoPlan}
    BY DEF PlanFrom
  <1> HIDE DEF e
  <1>8. Purchased(e, retrieved) \in Account
    BY <1>1, <1>6, <1>7 DEF Purchased, Account, Statuses
  <1>9. Updated(e) \in Account
    BY <1>1, <1>3, <1>7 DEF Updated, Account, Statuses
  <1>10. Deleted(e) \in Account
    BY <1>1, <1>3 DEF Deleted, Account, Statuses
  <1>11. Effect(e, retrieved) \in Account
    BY <1>2, <1>8, <1>9, <1>10 DEF Effect
  <1> QED
    BY <1>1, <1>2, <1>3, <1>4, <1>5, <1>6, <1>11 DEF e

----------------------------------------------------------------------------
(* Each action keeps the invariant. *)

LEMMA InitIInv == Init => IInv
  <1> SUFFICES ASSUME Init PROVE IInv
    OBVIOUS
  <1>1. /\ subscriptions = <<>> /\ events = <<>> /\ applied = <<>>
        /\ unanswered = {} /\ processed = {} /\ failures = 0 /\ lost = 0
        /\ account.until = NoTime
    BY DEF Init
  <1>2. TypeOK
    <2>1. account \in [tier : Ladder, until : Nat \cup {NoTime},
                       status : Statuses \cup {"none"}]
      BY BillingAssumption DEF Init
    <2> QED
      BY <1>1, <2>1, BillingAssumption DEF Init, TypeOK
  <1>3. DOMAIN subscriptions = {} /\ DOMAIN events = {} /\ DOMAIN applied = {}
        /\ Len(subscriptions) = 0
    BY <1>1
  <1> QED
    BY <1>1, <1>2, <1>3 DEF IInv, AppliedWereSeen, EffectsOnce, EventsLagBehind, EndedIsCanceled,
       LastEventIsNow, DateIsPaidFor, EndedHasDate, AccountFollowsStripe

\* Whatever Stripe does is known only from the event it sends.
LEMMA StripeStep ==
    ASSUME IInv, NEW type \in {"checkout", "updated", "deleted"},
           NEW s \in 1..MaxSubscriptions, NEW is \in Subscription,
           type = "deleted" => is.status = "canceled", Emit(type, s, is),
           subscriptions' \in Seq(Subscription), Len(subscriptions') <= MaxSubscriptions,
           DOMAIN subscriptions' = DOMAIN subscriptions \cup {s},
           \A m \in DOMAIN subscriptions :
              subscriptions[m].end \in Nat /\ subscriptions'[m].end \in Nat
              /\ subscriptions[m].end <= subscriptions'[m].end,
           subscriptions'[s] = is,
           UNCHANGED <<now, processed, account, applied, failures, lost>>
    PROVE  IInv'
  <1>1. TypeOK
    BY DEF IInv
  <1>2. /\ events' \in Seq(Event) /\ Len(events') <= MaxEvents
        /\ Len(events) \in Nat /\ Len(events') = Len(events) + 1
        /\ DOMAIN events' = DOMAIN events \cup {Len(events) + 1}
        /\ Len(events) + 1 \notin DOMAIN events
        /\ \A n \in DOMAIN events : events'[n] = events[n]
        /\ events'[Len(events) + 1].sub = s
        /\ events'[Len(events) + 1].is = is
        /\ events'[Len(events) + 1].type = type
        /\ unanswered' \subseteq DOMAIN events'
        /\ processed \subseteq DOMAIN events'
        /\ applied \in Seq(DOMAIN events')
    BY <1>1, EmitStep
  <1>3. TypeOK'
    BY <1>1, <1>2 DEF TypeOK
  <1>4. AppliedWereSeen' /\ EffectsOnce'
    BY DEF IInv, AppliedWereSeen, EffectsOnce
  <1>5. EventsLagBehind'
    <2>1. ASSUME NEW n \in DOMAIN events
          PROVE  /\ events'[n].sub \in DOMAIN subscriptions'
                 /\ events'[n].is.end <= subscriptions'[events'[n].sub].end
      <3>1. /\ events'[n] = events[n] /\ events[n].sub \in DOMAIN subscriptions
            /\ events[n].is.end <= subscriptions[events[n].sub].end
            /\ events[n].is.end \in Nat
        BY <1>2, EffectTyped DEF IInv, EventsLagBehind
      <3> QED
        BY <3>1
    <2>2. is.end <= subscriptions'[s].end
      BY DEF Subscription
    <2> QED
      BY <1>2, <2>1, <2>2 DEF EventsLagBehind
  <1>6. EndedIsCanceled'
    BY <1>2 DEF IInv, EndedIsCanceled
  <1>7. LastEventIsNow'
    <2>1. Len(subscriptions') = 1 => s = 1
      BY LenProperties
    <2> QED
      BY <1>2, <2>1 DEF LastEventIsNow
  <1>8. DateIsPaidFor'
    <2>1. account.until \in Nat \cup {NoTime}
      BY <1>1 DEF TypeOK
    <2> QED
      BY <2>1 DEF IInv, DateIsPaidFor, NoTime
  <1>9. EndedHasDate'
    <2>1. \A i \in DOMAIN applied : applied[i] \in DOMAIN events
      BY <1>1, ElementOfSeq, LenProperties DEF TypeOK
    <2> QED
      BY <1>2, <2>1 DEF IInv, EndedHasDate
  <1>10. AccountFollowsStripe'
    BY <1>1, <1>2, UnappliedBreaksOrder DEF AccountFollowsStripe
  <1> QED
    BY <1>3, <1>4, <1>5, <1>6, <1>7, <1>8, <1>9, <1>10 DEF IInv

LEMMA BuyStep ==
    ASSUME IInv, NEW plan \in Sold, Buy(plan)
    PROVE  IInv'
  <1> DEFINE is == [plan |-> plan, end |-> now + Period, status |-> "active",
                    cancelling |-> FALSE]
             s == Len(subscriptions) + 1
  <1>1. /\ subscriptions \in Seq(Subscription) /\ Len(subscriptions) \in Nat
        /\ Len(subscriptions) < MaxSubscriptions /\ MaxSubscriptions \in Nat
        /\ DOMAIN subscriptions = 1..Len(subscriptions) /\ now \in Nat
    BY BillingAssumption, LenProperties DEF IInv, TypeOK, Buy
  <1>2. is \in Subscription
    BY <1>1, BillingAssumption DEF Subscription, Statuses
  <1>3. /\ subscriptions' = Append(subscriptions, is) /\ Emit("checkout", s, is)
        /\ UNCHANGED <<now, processed, account, applied, failures, lost>>
    BY DEF Buy
  <1> HIDE DEF is
  <1>4. /\ subscriptions' \in Seq(Subscription)
        /\ Len(subscriptions') = Len(subscriptions) + 1
        /\ DOMAIN subscriptions' = 1..(Len(subscriptions) + 1)
        /\ \A m \in DOMAIN subscriptions : subscriptions'[m] = subscriptions[m]
        /\ subscriptions'[s] = is
    BY <1>1, <1>2, <1>3, AppendProperties
  <1>5. \A m \in DOMAIN subscriptions : subscriptions[m].end \in Nat
    <2>1. \A m \in DOMAIN subscriptions : subscriptions[m] \in Subscription
      BY <1>1, ElementOfSeq
    <2> QED
      BY <2>1 DEF Subscription
  <1>6. /\ s \in 1..MaxSubscriptions /\ Len(subscriptions') <= MaxSubscriptions
        /\ DOMAIN subscriptions' = DOMAIN subscriptions \cup {s}
    BY <1>1, <1>4
  <1>7. \A m \in DOMAIN subscriptions :
           subscriptions[m].end \in Nat /\ subscriptions'[m].end \in Nat
           /\ subscriptions[m].end <= subscriptions'[m].end
    BY <1>4, <1>5
  <1> HIDE DEF s
  <1> QED
    BY <1>2, <1>3, <1>4, <1>6, <1>7, StripeStep

\* A subscription that changes keeps its periods and may gain one.
LEMMA ChangedStep ==
    ASSUME IInv, NEW type \in {"updated", "deleted"}, NEW s \in DOMAIN subscriptions,
           NEW is \in Subscription, subscriptions[s].end <= is.end,
           type = "deleted" => is.status = "canceled", Changed(type, s, is)
    PROVE  IInv'
  <1>1. /\ subscriptions \in Seq(Subscription) /\ Len(subscriptions) \in Nat
        /\ Len(subscriptions) <= MaxSubscriptions /\ MaxSubscriptions \in Nat
        /\ DOMAIN subscriptions = 1..Len(subscriptions)
    BY BillingAssumption, LenProperties DEF IInv, TypeOK
  <1>2. /\ subscriptions' = [subscriptions EXCEPT ![s] = is] /\ Emit(type, s, is)
        /\ UNCHANGED <<now, processed, account, applied, failures, lost>>
    BY DEF Changed
  <1>3. /\ subscriptions' \in Seq(Subscription) /\ Len(subscriptions') = Len(subscriptions)
        /\ DOMAIN subscriptions' = DOMAIN subscriptions /\ subscriptions'[s] = is
        /\ \A m \in DOMAIN subscriptions \ {s} : subscriptions'[m] = subscriptions[m]
    BY <1>1, <1>2
  <1>4. \A m \in DOMAIN subscriptions : subscriptions[m].end \in Nat
    <2>1. \A m \in DOMAIN subscriptions : subscriptions[m] \in Subscription
      BY <1>1, ElementOfSeq
    <2> QED
      BY <2>1 DEF Subscription
  <1>5. \A m \in DOMAIN subscriptions :
           subscriptions[m].end \in Nat /\ subscriptions'[m].end \in Nat
           /\ subscriptions[m].end <= subscriptions'[m].end
    BY <1>3, <1>4 DEF Subscription
  <1>6. s \in 1..MaxSubscriptions
    BY <1>1
  <1>7. /\ Len(subscriptions') <= MaxSubscriptions
        /\ DOMAIN subscriptions' = DOMAIN subscriptions \cup {s}
    BY <1>1, <1>3
  <1> QED
    BY <1>2, <1>3, <1>5, <1>6, <1>7, StripeStep

\* What Stripe does to a subscription of its own accord or the customer's.
LEMMA SubscriptionStep ==
    ASSUME IInv, NEW s \in DOMAIN subscriptions,
           \/ Renew(s) \/ MissPayment(s) \/ CancelAtPeriodEnd(s) \/ End(s)
           \/ \E plan \in Sold : ChangePlan(s, plan)
    PROVE  IInv'
  <1> DEFINE old == subscriptions[s]
  <1>1. old \in Subscription
    BY ElementOfSeq, LenProperties DEF IInv, TypeOK
  <1>2. old.end \in Nat /\ old.end + Period \in Nat /\ old.end <= old.end + Period
    BY <1>1, BillingAssumption DEF Subscription
  <1>3. CASE Renew(s)
    <2> DEFINE is == [old EXCEPT !.end = old.end + Period, !.status = "active"]
    <2>1. is \in Subscription /\ is.end = old.end + Period
      BY <1>1, <1>2 DEF Subscription, Statuses
    <2>2. Changed("updated", s, is)
      BY <1>3 DEF Renew
    <2> HIDE DEF is
    <2> QED
      BY <1>2, <2>1, <2>2, ChangedStep
  <1>4. CASE MissPayment(s)
    <2> DEFINE is == [old EXCEPT !.status = "past_due"]
    <2>1. is \in Subscription /\ is.end = old.end
      BY <1>1 DEF Subscription, Statuses
    <2>2. Changed("updated", s, is)
      BY <1>4 DEF MissPayment
    <2> HIDE DEF is
    <2> QED
      BY <1>2, <2>1, <2>2, ChangedStep
  <1>5. CASE CancelAtPeriodEnd(s)
    <2> DEFINE is == [old EXCEPT !.cancelling = TRUE]
    <2>1. is \in Subscription /\ is.end = old.end
      BY <1>1 DEF Subscription
    <2>2. Changed("updated", s, is)
      BY <1>5 DEF CancelAtPeriodEnd
    <2> HIDE DEF is
    <2> QED
      BY <1>2, <2>1, <2>2, ChangedStep
  <1>6. CASE End(s)
    <2> DEFINE is == [old EXCEPT !.status = "canceled"]
    <2>1. is \in Subscription /\ is.end = old.end /\ is.status = "canceled"
      BY <1>1 DEF Subscription, Statuses
    <2>2. Changed("deleted", s, is)
      BY <1>6 DEF End
    <2> HIDE DEF is
    <2> QED
      BY <1>2, <2>1, <2>2, ChangedStep
  <1>7. ASSUME NEW plan \in Sold, ChangePlan(s, plan) PROVE IInv'
    <2> DEFINE is == [old EXCEPT !.plan = plan]
    <2>1. is \in Subscription /\ is.end = old.end
      BY <1>1 DEF Subscription
    <2>2. Changed("updated", s, is)
      BY <1>7 DEF ChangePlan
    <2> HIDE DEF is
    <2> QED
      BY <1>2, <2>1, <2>2, ChangedStep
  <1> QED
    BY <1>3, <1>4, <1>5, <1>6, <1>7

LEMMA RespondStep ==
    ASSUME IInv, NEW n \in unanswered, Respond(n)
    PROVE  unanswered' \subseteq DOMAIN events /\ lost' \in 0..MaxLost
  <1>1. unanswered \subseteq DOMAIN events /\ lost \in 0..MaxLost /\ MaxLost \in Nat
    BY BillingAssumption DEF IInv, TypeOK
  <1> QED
    BY <1>1 DEF Respond

\* The date is the event's, or the subscription's as fetched, or the one there
\* was; an end leaves one.
LEMMA EffectOnDate ==
    ASSUME IInv, NEW n \in DOMAIN events, NEW retrieved \in BOOLEAN,
           account' = Effect(events[n], retrieved), subscriptions' = subscriptions
    PROVE  /\ DateIsPaidFor'
           /\ account.until # NoTime \/ events[n].type = "deleted" => account'.until # NoTime
  <1> DEFINE e == events[n]
  <1>1. /\ e \in Event /\ e.is.end \in Nat /\ account \in Account
        /\ e.sub \in DOMAIN subscriptions /\ subscriptions[e.sub].end \in Nat
    BY EffectTyped
  <1>2. e.is.end <= subscriptions[e.sub].end
    BY DEF IInv, EventsLagBehind
  <1>3. account.until \in Nat \cup {NoTime} /\ e.type \in {"checkout", "updated", "deleted"}
    BY <1>1 DEF Account, Event
  <1> HIDE DEF e
  <1>4. CASE e.type = "checkout"
    <2>1. account' = Purchased(e, retrieved)
      BY <1>4 DEF Effect, e
    <2>2. \/ account'.until = account.until
          \/ account'.until = subscriptions[e.sub].end
      BY <2>1 DEF Purchased
    <2> QED
      BY <1>1, <1>3, <1>4, <2>2 DEF IInv, DateIsPaidFor, NoTime, e
  <1>5. CASE e.type = "updated"
    <2>1. account'.until = e.is.end
      BY <1>5 DEF Effect, Updated, e
    <2> QED
      BY <1>1, <1>2, <1>5, <2>1 DEF DateIsPaidFor, NoTime, e
  <1>6. CASE e.type = "deleted"
    <2>1. account'.until = IF account.until < e.is.end THEN e.is.end ELSE account.until
      BY <1>1, <1>6 DEF Effect, Deleted, Account, e
    <2> QED
      BY <1>1, <1>2, <1>3, <2>1 DEF IInv, DateIsPaidFor, NoTime, e
  <1> QED
    BY <1>3, <1>4, <1>5, <1>6

\* The handler of an only subscription's latest event says what Stripe says.
LEMMA EffectFollows ==
    ASSUME IInv, NEW n \in DOMAIN events, NEW retrieved \in BOOLEAN,
           account' = Effect(events[n], retrieved),
           Len(subscriptions) = 1, n = Len(events), subscriptions[1].plan \in Ladder,
           ~retrieved => events[n].type # "checkout"
    PROVE  /\ account'.until = subscriptions[1].end
           /\ subscriptions[1].status = "active" => account'.tier = subscriptions[1].plan
  <1> DEFINE e == events[n]
  <1>1. /\ e \in Event /\ e.is \in Subscription /\ e.is.end \in Nat /\ account \in Account
        /\ e.sub \in DOMAIN subscriptions
    BY EffectTyped
  <1>2. e.is = subscriptions[1] /\ e.sub = 1 /\ DOMAIN subscriptions = {1}
    <2>1. DOMAIN subscriptions = 1..1
      BY LenProperties DEF IInv, TypeOK
    <2> QED
      BY <1>1, <2>1 DEF IInv, LastEventIsNow
  <1>3. PlanFrom(e.is) = subscriptions[1].plan /\ PlanFrom(e.is) # NoPlan
    BY <1>2, BillingAssumption DEF PlanFrom
  <1>4. account.until \in Nat \cup {NoTime} /\ e.type \in {"checkout", "updated", "deleted"}
    BY <1>1 DEF Account, Event
  <1>5. CASE e.type = "checkout"
    <2>1. account' = Purchased(e, TRUE)
      BY <1>5 DEF Effect
    <2> HIDE DEF e
    <2> QED
      BY <1>2, <1>3, <2>1 DEF Purchased
  <1>6. CASE e.type = "updated"
    <2>1. account' = Updated(e)
      BY <1>6 DEF Effect
    <2> HIDE DEF e
    <2>2. /\ account'.until = e.is.end
          /\ account'.tier = IF e.is.status = "active" /\ PlanFrom(e.is) # NoPlan
                             THEN PlanFrom(e.is) ELSE account.tier
      BY <2>1 DEF Updated
    <2>3. account'.until = subscriptions[1].end
      BY <1>2, <2>2
    <2>4. subscriptions[1].status = "active" => account'.tier = subscriptions[1].plan
      BY <1>2, <1>3, <2>2
    <2> QED
      BY <2>3, <2>4
  <1>7. CASE e.type = "deleted"
    <2>1. account' = Deleted(e)
      BY <1>7 DEF Effect
    <2>2. account.until # NoTime => account.until <= e.is.end
      BY <1>2 DEF IInv, DateIsPaidFor
    <2> HIDE DEF e
    <2>3. account'.until = IF account.until < e.is.end THEN e.is.end ELSE account.until
      BY <1>1, <2>1 DEF Deleted, Account
    <2>4. account'.until = e.is.end
      BY <1>1, <1>4, <2>2, <2>3 DEF NoTime
    <2>5. subscriptions[1].status = "canceled"
      BY <1>2, <1>7 DEF IInv, EndedIsCanceled, e
    <2> QED
      BY <1>2, <2>4, <2>5
  <1> QED
    BY <1>4, <1>5, <1>6, <1>7

LEMMA HandleStep ==
    ASSUME IInv, NEW n \in DOMAIN events, NEW retrieved \in BOOLEAN, Handle(n, retrieved)
    PROVE  IInv'
  <1>1. /\ n \in unanswered /\ n \notin processed /\ processed' = processed \cup {n}
        /\ account' = Effect(events[n], retrieved) /\ applied' = Append(applied, n)
        /\ Respond(n)
        /\ now' = now /\ subscriptions' = subscriptions /\ events' = events
    BY DEF Handle, FirstSight
  <1>2. TypeOK /\ applied \in Seq(DOMAIN events) /\ Len(applied) \in Nat
        /\ DOMAIN applied = 1..Len(applied)
        /\ events \in Seq(Event) /\ Len(events) \in Nat /\ DOMAIN events = 1..Len(events)
        /\ MaxFailures \in Nat /\ failures \in 0..MaxFailures
    BY BillingAssumption, LenProperties DEF IInv, TypeOK
  <1>3. /\ applied' \in Seq(DOMAIN events) /\ Len(applied') = Len(applied) + 1
        /\ DOMAIN applied' = DOMAIN applied \cup {Len(applied) + 1}
        /\ \A i \in DOMAIN applied : applied'[i] = applied[i] /\ i # Len(applied) + 1
        /\ applied'[Len(applied) + 1] = n
    <2>1. /\ applied' \in Seq(DOMAIN events) /\ Len(applied') = Len(applied) + 1
          /\ DOMAIN applied' = 1..(Len(applied) + 1)
          /\ \A i \in 1..Len(applied) : applied'[i] = applied[i]
          /\ applied'[Len(applied) + 1] = n
      BY <1>1, <1>2, AppendProperties
    <2> QED
      BY <1>2, <2>1
  <1>4. failures' \in 0..MaxFailures /\ (failures' = 0 /\ ~retrieved => events[n].type # "checkout")
    BY <1>2 DEF Handle
  <1>5. TypeOK'
    <2>1. unanswered' \subseteq DOMAIN events /\ lost' \in 0..MaxLost
      BY <1>1, RespondStep
    <2>2. account' \in Account
      BY <1>1, EffectTyped
    <2> QED
      BY <1>1, <1>2, <1>3, <1>4, <2>1, <2>2 DEF TypeOK, Account
  <1>6. AppliedWereSeen' /\ EffectsOnce'
    BY <1>1, <1>3 DEF IInv, AppliedWereSeen, EffectsOnce
  <1>7. EventsLagBehind' /\ EndedIsCanceled' /\ LastEventIsNow'
    BY <1>1 DEF IInv, EventsLagBehind, EndedIsCanceled, LastEventIsNow
  <1>8. DateIsPaidFor' /\ EndedHasDate'
    <2>1. /\ DateIsPaidFor'
          /\ account.until # NoTime \/ events[n].type = "deleted" => account'.until # NoTime
      BY <1>1, EffectOnDate
    <2> QED
      BY <1>1, <1>3, <2>1 DEF IInv, EndedHasDate
  <1>9. AccountFollowsStripe'
    <2> SUFFICES ASSUME Len(subscriptions) = 1, subscriptions[1].plan \in Ladder, failures' = 0,
                        applied' = [m \in DOMAIN events |-> m]
                 PROVE  /\ account'.until = subscriptions[1].end
                        /\ subscriptions[1].status = "active"
                             => account'.tier = subscriptions[1].plan
      BY <1>1 DEF AccountFollowsStripe
    <2>1. DOMAIN applied' = DOMAIN events
      OBVIOUS
    <2>2. Len(applied) + 1 = Len(events)
      <3>1. DOMAIN applied' = 1..(Len(applied) + 1)
        BY <1>3, LenProperties
      <3>2. 1..(Len(applied) + 1) = 1..Len(events)
        BY <1>2, <2>1, <3>1
      <3>3. Len(applied) + 1 \in Nat /\ Len(events) \in Nat
        BY <1>2
      <3> QED
        BY <3>2, <3>3, IntervalsMatch
    <2>3. n = Len(events)
      BY <1>2, <1>3, <2>2
    <2> QED
      BY <1>1, <1>4, <2>3, EffectFollows
  <1> QED
    BY <1>5, <1>6, <1>7, <1>8, <1>9 DEF IInv

LEMMA DuplicateStep ==
    ASSUME IInv, NEW n \in DOMAIN events, Duplicate(n)
    PROVE  IInv'
  <1>1. /\ now' = now /\ subscriptions' = subscriptions /\ events' = events
        /\ processed' = processed /\ account' = account /\ applied' = applied
        /\ failures' = failures
    BY DEF Duplicate
  <1>2. unanswered' \subseteq DOMAIN events /\ lost' \in 0..MaxLost
    BY RespondStep DEF Duplicate
  <1> QED
    BY <1>1, <1>2 DEF IInv, TypeOK, AppliedWereSeen, EffectsOnce, EventsLagBehind, EndedIsCanceled,
       LastEventIsNow, DateIsPaidFor, EndedHasDate, AccountFollowsStripe

LEMMA FailStep ==
    ASSUME IInv, NEW n \in DOMAIN events, Fail(n)
    PROVE  IInv'
  <1>1. /\ now' = now /\ subscriptions' = subscriptions /\ events' = events
        /\ unanswered' = unanswered /\ account' = account /\ applied' = applied
        /\ lost' = lost /\ processed' \in {processed, processed \cup {n}}
    BY DEF Fail
  <1>2. failures' \in 0..MaxFailures /\ failures' # 0
    BY BillingAssumption DEF Fail, IInv, TypeOK
  <1>3. TypeOK'
    BY <1>1, <1>2 DEF IInv, TypeOK
  <1> QED
    BY <1>1, <1>2, <1>3 DEF IInv, AppliedWereSeen, EffectsOnce, EventsLagBehind, EndedIsCanceled,
       LastEventIsNow, DateIsPaidFor, EndedHasDate, AccountFollowsStripe

\* Nothing the invariant says depends on the time.
LEMMA TimeStep ==
    ASSUME IInv, Tick \/ UNCHANGED vars
    PROVE  IInv'
  <1>1. /\ subscriptions' = subscriptions /\ events' = events
        /\ unanswered' = unanswered /\ processed' = processed /\ account' = account
        /\ applied' = applied /\ failures' = failures /\ lost' = lost
        /\ now' \in Times
    BY DEF Tick, vars, IInv, TypeOK
  <1> QED
    BY <1>1 DEF IInv, TypeOK, AppliedWereSeen, EffectsOnce, EventsLagBehind, EndedIsCanceled,
       LastEventIsNow, DateIsPaidFor, EndedHasDate, AccountFollowsStripe

LEMMA NextStep == IInv /\ [Next]_vars => IInv'
  <1> SUFFICES ASSUME IInv, [Next]_vars PROVE IInv'
    OBVIOUS
  <1>1. CASE \E plan \in Sold : Buy(plan)
    BY <1>1, BuyStep
  <1>2. CASE \E s \in DOMAIN subscriptions :
                \/ Renew(s) \/ MissPayment(s) \/ CancelAtPeriodEnd(s) \/ End(s)
                \/ \E plan \in Sold : ChangePlan(s, plan)
    BY <1>2, SubscriptionStep
  <1>3. CASE \E n \in DOMAIN events : Deliver(n) \/ Fail(n)
    BY <1>3, HandleStep, DuplicateStep, FailStep DEF Deliver
  <1>4. CASE Tick \/ UNCHANGED vars
    BY <1>4, TimeStep
  <1> QED
    BY <1>1, <1>2, <1>3, <1>4 DEF Next

----------------------------------------------------------------------------
(* What follows *)

\* The inductive invariant holds of every behaviour.
THEOREM Invariant == Spec => []IInv
  <1> QED
    BY InitIInv, NextStep, PTL DEF Spec

\* Every variable keeps its type; the plan never leaves the ladder.
THEOREM TypesHold == Spec => []TypeOK
  <1>1. IInv => TypeOK
    BY DEF IInv
  <1> QED
    BY <1>1, Invariant, PTL

\* The handler of an event runs to its end at most once, however often the
\* event comes, because its id is stored in a transaction that comes first.
THEOREM HandlersRunOnce == Spec => []EffectsOnce
  <1>1. IInv => EffectsOnce
    BY DEF IInv
  <1> QED
    BY <1>1, Invariant, PTL

\* Access ends with the periods that were paid for, by the date alone: it is
\* known once an end was reported, and no later than some subscription's end.
THEOREM AccessEnds == Spec => []AccessEndsWithThePeriods
  <1>1. ASSUME IInv,
               NEW i \in DOMAIN applied, events[applied[i]].type = "deleted",
               \A s \in DOMAIN subscriptions : subscriptions[s].end < now
        PROVE  PlanFor(account, now) \in Grants
    <2>1. account.until # NoTime
      BY <1>1 DEF IInv, EndedHasDate
    <2>2. PICK s \in DOMAIN subscriptions : account.until <= subscriptions[s].end
      BY <1>1, <2>1 DEF IInv, DateIsPaidFor
    <2>3. /\ subscriptions[s] \in Subscription /\ now \in Nat
          /\ account.until \in Nat \cup {NoTime}
      BY <1>1, ElementOfSeq, LenProperties, BillingAssumption DEF IInv, TypeOK
    <2>4. account.until < now
      BY <1>1, <2>2, <2>3 DEF Subscription, NoTime
    <2> QED
      BY <2>1, <2>4, BillingAssumption DEF PlanFor
  <1>2. IInv => AccessEndsWithThePeriods
    BY <1>1 DEF AccessEndsWithThePeriods
  <1> QED
    BY <1>2, Invariant, PTL

\* With one subscription, and its events handled to their end in their order,
\* the account says what Stripe says.
THEOREM Follows == Spec => []AccountFollowsStripe
  <1>1. IInv => AccountFollowsStripe
    BY DEF IInv
  <1> QED
    BY <1>1, Invariant, PTL

\* A cancellation takes no day of access away: it raises the date or leaves it.
THEOREM CancellingKeepsDays == Spec => CancellationKeepsPaidTime
  <1> DEFINE Keeps ==
        \A n \in unanswered :
          (/\ n \notin processed /\ n \in processed'
           /\ events[n].type = "deleted" /\ account.until # NoTime)
          => \A t \in Times : PlanFor(account, t) # "free"
                              => PlanFor(account', t) = PlanFor(account, t)
  <1>1. ASSUME IInv, NEW m \in DOMAIN events, NEW retrieved \in BOOLEAN, Handle(m, retrieved)
        PROVE  Keeps
    <2> SUFFICES ASSUME NEW n \in unanswered, n \notin processed, n \in processed',
                        events[n].type = "deleted", account.until # NoTime,
                        NEW t \in Times, PlanFor(account, t) # "free"
                 PROVE  PlanFor(account', t) = PlanFor(account, t)
      OBVIOUS
    <2>1. n = m /\ account' = Effect(events[n], retrieved)
      BY <1>1 DEF Handle
    <2>2. events[n].is.end \in Nat /\ account \in Account /\ t \in Nat
      BY <1>1, <2>1, EffectTyped, BillingAssumption
    <2>3. account' = Deleted(events[n])
      BY <2>1 DEF Effect
    <2>4. /\ account.until \in Nat
          /\ account'.tier = account.tier
          /\ account'.until = IF account.until < events[n].is.end
                              THEN events[n].is.end ELSE account.until
      BY <2>2, <2>3 DEF Deleted, Account
    <2>5. account'.until \in Nat /\ account'.until >= account.until /\ account'.until # NoTime
      BY <2>2, <2>4 DEF NoTime
    <2> QED
      BY <2>2, <2>4, <2>5 DEF PlanFor
  <1>2. ASSUME account' = account
        PROVE  Keeps
    BY <1>2
  <1>3. ASSUME processed' = processed
        PROVE  Keeps
    BY <1>3
  <1>4. IInv /\ [Next]_vars => [Keeps]_vars
    <2> HIDE DEF Keeps
    <2> SUFFICES ASSUME IInv, Next PROVE Keeps
      OBVIOUS
    <2>1. CASE \E plan \in Sold : Buy(plan)
      BY <1>2, <2>1 DEF Buy
    <2>2. CASE \E s \in DOMAIN subscriptions :
                  \/ Renew(s) \/ MissPayment(s) \/ CancelAtPeriodEnd(s) \/ End(s)
                  \/ \E plan \in Sold : ChangePlan(s, plan)
      BY <1>2, <2>2 DEF Renew, MissPayment, CancelAtPeriodEnd, End, ChangePlan, Changed
    <2>3. CASE \E n \in DOMAIN events : Deliver(n) \/ Fail(n)
      BY <1>1, <1>2, <2>3 DEF Deliver, Duplicate, Fail
    <2>4. CASE Tick
      BY <1>2, <2>4 DEF Tick
    <2> QED
      BY <2>1, <2>2, <2>3, <2>4 DEF Next
  <1> QED
    BY <1>4, Invariant, PTL DEF Spec, CancellationKeepsPaidTime

==============================================================================
