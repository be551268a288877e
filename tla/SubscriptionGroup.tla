-------------------------- MODULE SubscriptionGroup --------------------------
(***************************************************************************)
(* The user group that subscriptions lend (model/subscription.go): a plan  *)
(* may upgrade the user's group, and cancelling, deleting or outliving the *)
(* subscription is to give the group back.  Each transaction of the code   *)
(* is one action.                                                          *)
(*                                                                         *)
(* Operators whose name ends in Bug are plausible mistakes in the code     *)
(* they precede; they show that the properties would notice.               *)
(***************************************************************************)
EXTENDS Naturals, Sequences

CONSTANTS
    Base,           \* the user's group before any subscription
    Upgrades,       \* upgrade groups of the plans on sale
    None,           \* the empty group name: a plan without an upgrade
    Durations,      \* validity periods of the plans
    MaxSubs,        \* bound on the number of purchases
    MaxTime         \* bound on the clock

ASSUME GroupAssumption ==
    /\ Base \notin Upgrades \cup {None}
    /\ None \notin Upgrades
    /\ Durations \subseteq Nat \ {0}
    /\ MaxSubs \in Nat
    /\ MaxTime \in Nat

VARIABLES
    now,            \* the database clock
    group,          \* users.group
    subs            \* the user's subscriptions in order of id

vars == <<now, group, subs>>

Groups == Upgrades \cup {Base}

Sub == [status : {"active", "expired", "cancelled", "deleted"}, ends : Nat,
        up : Upgrades \cup {None},    \* upgrade_group
        prev : Groups \cup {None}]    \* prev_user_group

Ids == DOMAIN subs

Active(i, t) == subs[i].status = "active" /\ subs[i].ends > t

\* An active subscription with an upgrade, other than those in but.
UpgradedAt(t, but) == \E i \in Ids \ but : Active(i, t) /\ subs[i].up # None

\* The previous group a new subscription remembers: none if the user is in the
\* upgraded group already.
PrevGroup(g) == IF g # None /\ group # g THEN group ELSE None

\* CreateUserSubscriptionFromPlanTx, for an order or for an administrator.
Purchase(g, d) ==
    /\ Len(subs) < MaxSubs
    /\ group' = IF g # None THEN g ELSE group
    /\ subs' = Append(subs, [status |-> "active", ends |-> now + d, up |-> g,
                             prev |-> PrevGroup(g)])
    /\ UNCHANGED now

\* Without a look at the other subscriptions.
DowngradedBug(i) ==
    IF subs[i].up = group /\ subs[i].prev # None THEN subs[i].prev ELSE group

\* downgradeUserGroupForSubscriptionTx: back to the group before subscription i,
\* unless the user is not in its group, another active subscription upgrades
\* the user, or no previous group is known.
Downgraded(i) ==
    IF /\ subs[i].up = group
       /\ ~UpgradedAt(now, {i})
       /\ subs[i].prev \notin {None, group}
    THEN subs[i].prev ELSE group

\* AdminInvalidateUserSubscription, whatever the status.
Invalidate(i) ==
    /\ i \in Ids /\ subs[i].status # "deleted"
    /\ subs' = [subs EXCEPT ![i].status = "cancelled", ![i].ends = now]
    /\ group' = Downgraded(i)
    /\ UNCHANGED now

\* AdminDeleteUserSubscription, whatever the status.
Delete(i) ==
    /\ i \in Ids /\ subs[i].status # "deleted"
    /\ subs' = [subs EXCEPT ![i].status = "deleted"]
    /\ group' = Downgraded(i)
    /\ UNCHANGED now

\* The expired subscription with an upgrade that ended last (ties: highest id).
LastExpired(ss) ==
    LET expired == {i \in DOMAIN ss : ss[i].status = "expired" /\ ss[i].up # None} IN
    CHOOSE i \in expired : \A j \in expired :
        ss[j].ends < ss[i].ends \/ (ss[j].ends = ss[i].ends /\ j <= i)

\* The status is updated, the group is left to the administrator.
ExpireDueBug(t) ==
    LET due == {i \in Ids : subs[i].status = "active" /\ subs[i].ends <= t} IN
    /\ due # {}
    /\ subs' = [i \in Ids |-> IF i \in due THEN [subs[i] EXCEPT !.status = "expired"]
                              ELSE subs[i]]
    /\ UNCHANGED <<now, group>>

\* ExpireDueSubscriptions for the user, with the clock t its scan read: expire
\* what is due; if no active subscription upgrades the user, go back to the
\* group before the subscription that ended last, if that is where the user is.
ExpireDue(t) ==
    LET due == {i \in Ids : subs[i].status = "active" /\ subs[i].ends <= t}
        ss == [i \in Ids |-> IF i \in due THEN [subs[i] EXCEPT !.status = "expired"]
                             ELSE subs[i]]
        last == ss[LastExpired(ss)]
        none == \A i \in Ids : ss[i].status = "expired" => ss[i].up = None IN
    /\ due # {}
    /\ subs' = ss
    /\ group' = IF UpgradedAt(t, {}) \/ none \/ last.prev = None \/ last.up # group
                THEN group ELSE last.prev
    /\ UNCHANGED now

Tick ==
    /\ now < MaxTime
    /\ now' = now + 1
    /\ UNCHANGED <<group, subs>>

\* Time is up: only administrators act.
Rest == now = MaxTime /\ UNCHANGED vars

Init ==
    /\ now = 1
    /\ group = Base
    /\ subs = <<>>

Next ==
    \/ \E g \in Upgrades \cup {None}, d \in Durations : Purchase(g, d)
    \/ \E i \in Ids : Invalidate(i) \/ Delete(i)
    \/ \E t \in 1..now : ExpireDue(t)
    \/ Tick
    \/ Rest

Spec == Init /\ [][Next]_vars

\* The maintenance task runs once a minute for as long as the node lives.
FairSpec == Spec /\ WF_vars(\E t \in 1..now : ExpireDue(t))

-----------------------------------------------------------------------------
(* Properties.                                                             *)

\* Types of the clock, the user's group and the subscription rows.
TypeOK ==
    /\ now \in Nat
    /\ group \in Groups
    /\ subs \in Seq(Sub)

\* A user with a live upgrading subscription is never put back into the base
\* group by the end of another one.
PaidKeepsUpgrade == UpgradedAt(now, {}) => group # Base

\* Every upgrading subscription was bought from the base group.
FromBase == \A i \in Ids : subs[i].up # None => subs[i].prev = Base

\* Buying, running out, cancelling and deleting in any order, as long as each
\* upgrade starts from the base group, ends in the base group: no cancelled,
\* deleted or expired subscription leaves its group behind.
UpgradeReturned ==
    FromBase /\ (\A i \in Ids : subs[i].status # "active") => group = Base

\* What is marked expired has ended.
ExpiredPast == \A i \in Ids : subs[i].status = "expired" => subs[i].ends <= now

\* Not cancelled and not deleted: the end is the one that was paid for.
RunsOut(i) == subs[i].status \in {"active", "expired"}

\* Upgrades that all start from the base group follow one another: the earlier
\* one is over, and was over before the later one began.
Succession ==
    FromBase => \A i, j \in Ids :
        i < j /\ subs[i].up # None /\ subs[j].up # None /\ RunsOut(i) =>
            subs[i].ends <= now /\ (RunsOut(j) => subs[i].ends < subs[j].ends)

\* A group that is not the base group was lent by the latest upgrade, which is
\* neither cancelled nor deleted nor marked expired.
LentByLatest ==
    FromBase /\ group # Base => \E i \in Ids :
        /\ subs[i].status = "active" /\ subs[i].up = group
        /\ \A j \in Ids : i < j => subs[j].up = None

\* The group follows the subscriptions: kept while one is paid for, given back
\* when the last has ended; with the parts that make this inductive.
GroupInv ==
    /\ TypeOK
    /\ PaidKeepsUpgrade
    /\ UpgradeReturned
    /\ ExpiredPast
    /\ Succession
    /\ LentByLatest

\* The maintenance task gives the group back: a user whose upgrades all started
\* from the base group and who has no live one left returns to it, unless a new
\* purchase comes first.
GroupEventuallyReturned ==
    FromBase /\ ~UpgradedAt(now, {})
        ~> group = Base \/ UpgradedAt(now, {}) \/ ~FromBase
=============================================================================
