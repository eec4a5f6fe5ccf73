----------------------------- MODULE BillingWebhook -----------------------------
(***************************************************************************)
(* The plan of one account and Stripe's webhook, which is the only thing   *)
(* that moves it: src/cra/server/billing.py, billing_web.stripe_webhook    *)
(* and entitlements.plan_for.                                              *)
(*                                                                         *)
(* Stripe (external) keeps the subscriptions and sends a snapshot of one   *)
(* with every change, in any order, again and again until it is answered   *)
(* 200.  The handler is synchronous inside an async route, so one delivery *)
(* is one step; but it is two transactions, and the first, which remembers *)
(* the event's id, stands when the second fails.                           *)
(***************************************************************************)
EXTENDS Integers, Sequences

CONSTANTS
    Times,
    Period,        \* what one payment covers
    Ladder,        \* the names in entitlements.plans()
    Grants,        \* GRANTS: plans with no paid-through date
    Sold,          \* plans named in a subscription's metadata
    MaxSubscriptions, MaxEvents,    \* bounds
    MaxFailures,   \* bound: failed handlers and failed calls to Stripe
    MaxLost        \* bound: answers that do not reach Stripe

NoTime == -1
NoPlan == "none"   \* Python's None, which no plan is called

ASSUME BillingAssumption ==
    /\ Times \subseteq Nat
    /\ Period \in Nat \ {0}
    /\ Grants \subseteq Ladder /\ "free" \in Grants /\ NoPlan \notin Ladder
    /\ Sold \cap Grants = {}
    /\ MaxSubscriptions \in Nat /\ MaxEvents \in Nat
    /\ MaxFailures \in Nat /\ MaxLost \in Nat

VARIABLES
    now,
    subscriptions,   \* Stripe's, in the order they were bought
    events,          \* Stripe's, in the order they happened
    unanswered,      \* the events Stripe has still to deliver
    processed,       \* processed_stripe_events
    account,         \* users: tier, tier_until, subscription_status
    applied,         \* history: the events whose handler ran, in that order
    failures, lost   \* spent out of the bounds

vars == <<now, subscriptions, events, unanswered, processed, account, applied,
          failures, lost>>

Statuses == {"active", "past_due", "canceled"}
Subscription == [plan : Sold, end : Nat, status : Statuses, cancelling : BOOLEAN]
Event == [type : {"checkout", "updated", "deleted"},
          sub : 1..MaxSubscriptions, is : Subscription]

TypeOK ==
    /\ now \in Times
    /\ subscriptions \in Seq(Subscription) /\ Len(subscriptions) <= MaxSubscriptions
    /\ events \in Seq(Event) /\ Len(events) <= MaxEvents
    /\ unanswered \subseteq DOMAIN events
    /\ processed \subseteq DOMAIN events
    /\ account \in [tier : Ladder, until : Nat \cup {NoTime},
                    status : Statuses \cup {"none"}]
    /\ applied \in Seq(DOMAIN events)
    /\ failures \in 0..MaxFailures /\ lost \in 0..MaxLost

Init ==
    /\ now \in Times
    /\ subscriptions = <<>> /\ events = <<>> /\ applied = <<>>
    /\ unanswered = {} /\ processed = {}
    /\ \E tier \in Grants : account = [tier |-> tier, until |-> NoTime, status |-> "none"]
    /\ failures = 0 /\ lost = 0

----------------------------------------------------------------------------
(* entitlements.plan_for: a paid tier past its date reads as free.         *)
PlanForStored(who, t) == IF who.tier \in Ladder THEN who.tier ELSE "free"  \* mutant: the date not read

PlanFor(who, t) ==
    LET lapsed == who.tier \notin Grants /\ who.until # NoTime /\ who.until < t
    IN  IF who.tier \notin Ladder \/ lapsed THEN "free" ELSE who.tier

(* _plan_from: a name that is not on the ladder grants nothing.            *)
PlanFrom(is) == IF is.plan \in Ladder THEN is.plan ELSE NoPlan

(* _mark_event_processed: the primary key refuses an id twice.             *)
FirstSightIfUnanswered(n) == n \in unanswered  \* mutant: every attempt is the first

FirstSight(n) == n \notin processed

(* _handle_checkout_completed: the period's end is not on the session, and *)
(* when the subscription cannot be fetched the date already there stays.   *)
Purchased(e, retrieved) ==
    LET plan == PlanFrom(e.is)
    IN  IF plan = NoPlan
        THEN account
        ELSE [tier |-> plan, status |-> "active",
              until |-> IF retrieved THEN subscriptions[e.sub].end ELSE account.until]

(* _handle_subscription_updated                                            *)
UpdatedLeavesTier(e) ==  \* mutant: a change of plan not taken up
    [account EXCEPT !.status = e.is.status, !.until = e.is.end]

Updated(e) ==
    LET plan == PlanFrom(e.is)
        active == e.is.status = "active"
    IN  [tier |-> IF active /\ plan # NoPlan THEN plan ELSE account.tier,
         status |-> IF e.is.cancelling /\ active THEN "canceled" ELSE e.is.status,
         until |-> e.is.end]

(* _handle_subscription_deleted                                            *)
DeletedToItsEnd(e) ==  \* mutant: the paid-through date taken from the event
    [account EXCEPT !.status = "canceled", !.until = e.is.end]

Deleted(e) ==
    [account EXCEPT !.status = "canceled",
                    !.until = IF account.until < e.is.end THEN e.is.end ELSE @]

Effect(e, retrieved) ==
    CASE e.type = "checkout" -> Purchased(e, retrieved)
      [] e.type = "updated"  -> Updated(e)
      [] e.type = "deleted"  -> Deleted(e)

----------------------------------------------------------------------------
(* Stripe, as far as the handlers rely on it.                              *)
Emit(type, s, is) ==
    /\ Len(events) < MaxEvents
    /\ events' = Append(events, [type |-> type, sub |-> s, is |-> is])
    /\ unanswered' = unanswered \cup {Len(events) + 1}

\* A checkout is not refused to an account that already has a subscription.
Buy(plan) ==
    LET is == [plan |-> plan, end |-> now + Period, status |-> "active", cancelling |-> FALSE]
    IN  /\ Len(subscriptions) < MaxSubscriptions
        /\ subscriptions' = Append(subscriptions, is)
        /\ Emit("checkout", Len(subscriptions) + 1, is)
        /\ UNCHANGED <<now, processed, account, applied, failures, lost>>

Changed(type, s, is) ==
    /\ subscriptions[s].status # "canceled"
    /\ is # subscriptions[s]
    /\ subscriptions' = [subscriptions EXCEPT ![s] = is]
    /\ Emit(type, s, is)
    /\ UNCHANGED <<now, processed, account, applied, failures, lost>>

Renew(s) ==
    /\ subscriptions[s].end <= now /\ ~subscriptions[s].cancelling
    /\ Changed("updated", s, [subscriptions[s] EXCEPT !.end = @ + Period,
                                                      !.status = "active"])

MissPayment(s) == Changed("updated", s, [subscriptions[s] EXCEPT !.status = "past_due"])

ChangePlan(s, plan) == Changed("updated", s, [subscriptions[s] EXCEPT !.plan = plan])

CancelAtPeriodEnd(s) == Changed("updated", s, [subscriptions[s] EXCEPT !.cancelling = TRUE])

End(s) == Changed("deleted", s, [subscriptions[s] EXCEPT !.status = "canceled"])

----------------------------------------------------------------------------
(* billing_web.stripe_webhook and billing.handle_event                     *)
\* The 200 reaches Stripe, or is lost and the event comes again.
Respond(n) ==
    \/ /\ unanswered' = unanswered \ {n}
       /\ UNCHANGED lost
    \/ /\ lost < MaxLost
       /\ lost' = lost + 1
       /\ UNCHANGED unanswered

\* _resolve_period_end's call to Stripe, made for a checkout only, may fail.
Handle(n, retrieved) ==
    /\ n \in unanswered /\ FirstSight(n)
    /\ \/ retrieved /\ UNCHANGED failures
       \/ /\ ~retrieved /\ events[n].type = "checkout"
          /\ failures < MaxFailures
          /\ failures' = failures + 1
    /\ processed' = processed \cup {n}
    /\ account' = Effect(events[n], retrieved)
    /\ applied' = Append(applied, n)
    /\ Respond(n)
    /\ UNCHANGED <<now, subscriptions, events>>

Duplicate(n) ==
    /\ n \in unanswered /\ ~FirstSight(n)
    /\ Respond(n)
    /\ UNCHANGED <<now, subscriptions, events, processed, account, applied, failures>>

\* An exception, or the process gone, before the id is stored or after.
Fail(n) ==
    /\ failures < MaxFailures
    /\ n \in unanswered /\ FirstSight(n)
    /\ failures' = failures + 1
    /\ processed' \in {processed, processed \cup {n}}
    /\ UNCHANGED <<now, subscriptions, events, unanswered, account, applied, lost>>

Tick ==
    /\ now + 1 \in Times
    /\ now' = now + 1
    /\ UNCHANGED <<subscriptions, events, unanswered, processed, account, applied,
                   failures, lost>>

Deliver(n) == Duplicate(n) \/ \E retrieved \in BOOLEAN : Handle(n, retrieved)

Next ==
    \/ \E plan \in Sold : Buy(plan)
    \/ \E s \in DOMAIN subscriptions :
          \/ Renew(s) \/ MissPayment(s) \/ CancelAtPeriodEnd(s) \/ End(s)
          \/ \E plan \in Sold : ChangePlan(s, plan)
    \/ \E n \in DOMAIN events : Deliver(n) \/ Fail(n)
    \/ Tick

Spec == Init /\ [][Next]_vars

\* Stripe keeps trying what has not been answered.
FairSpec == Spec /\ WF_vars(\E n \in DOMAIN events : Deliver(n))

----------------------------------------------------------------------------
\* The plans a subscription in good standing has been for.
Bought ==
    {events[n].is.plan : n \in {m \in DOMAIN events : events[m].type # "deleted"
                                                   /\ events[m].is.status = "active"}}
    \cap Ladder

\* However often an event comes, and in whatever order, its handler runs to
\* its end at most once (handle_event: "a retry after a 5xx cannot re-run
\* side effects").
EffectsOnce == \A i, j \in DOMAIN applied : applied[i] = applied[j] => i = j

\* Once any subscription of the account has been reported ended, and the
\* periods of all of them are over, plan_for reads a plan that is not sold,
\* though nothing has run to take the tier away (_handle_subscription_deleted).
AccessEndsWithThePeriods ==
    (/\ \E i \in DOMAIN applied : events[applied[i]].type = "deleted"
     /\ \A s \in DOMAIN subscriptions : subscriptions[s].end < now)
    => PlanFor(account, now) \in Grants

\* A cancellation handled late, or for one of two subscriptions, takes away
\* no day of access the account had before it, where a date was known
\* (_handle_subscription_deleted).
CancellationKeepsPaidTime ==
    [][\A n \in unanswered :
         (/\ n \notin processed /\ n \in processed'
          /\ events[n].type = "deleted" /\ account.until # NoTime)
         => \A t \in Times : PlanFor(account, t) # "free"
                             => PlanFor(account', t) = PlanFor(account, t)]_vars

\* One subscription, every handler run to its end, in the order things
\* happened at Stripe: the account then says what Stripe says, the end of the
\* period and the plan, renewals, changes of plan and duplicates included
\* (billing.py: "`tier_until` is the paid-through date").
AccountFollowsStripe ==
    LET is == subscriptions[1]
    IN  (/\ Len(subscriptions) = 1 /\ is.plan \in Ladder
         /\ failures = 0 /\ applied = [n \in DOMAIN events |-> n])
        => /\ account.until = is.end
           /\ is.status = "active" => account.tier = is.plan

\* The same without the order: violated, an older update delivered after a
\* renewal moves the date back.
AccountFollowsInAnyOrder ==
    LET is == subscriptions[1]
    IN  (/\ Len(subscriptions) = 1 /\ is.plan \in Ladder
         /\ failures = 0 /\ unanswered = {})
        => account.until = is.end

\* Money that changed hands for a plan on the ladder ends in that account
\* having a plan that was bought (stripe_webhook: "an unexpected exception
\* is 500, so Stripe *does* retry").
PurchaseIsGranted ==
    \A plan \in Ladder : (plan \in Bought) ~> (account.tier \in Bought)

\* The confirmation _confirm_by_email sends, "the {plan} plan is active on
\* this address", is true when it is sent within the period paid for.
ConfirmationIsTrue ==
    [][\A n \in unanswered :
         (/\ n \notin processed /\ Len(applied') > Len(applied) /\ n \in processed'
          /\ events[n].type = "checkout" /\ events[n].is.plan \in Ladder
          /\ now <= events[n].is.end)
         => PlanFor(account', now) = events[n].is.plan]_vars
=============================================================================
