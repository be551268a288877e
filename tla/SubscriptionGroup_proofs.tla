---------------------- MODULE SubscriptionGroup_proofs ----------------------
(* The user group that subscriptions lend: proofs for any number of plans, *)
(* purchases and periods.                                                  *)
EXTENDS SubscriptionGroup, SequenceTheorems, WellFoundedInduction, TLAPS

-----------------------------------------------------------------------------
(* The operators. *)

\* A non-empty set of natural numbers has a least element.
LEMMA LeastOf ==
  ASSUME NEW S \in SUBSET Nat, S # {}
  PROVE  \E n \in S : \A k \in S : n <= k
  <1>1. PICK n \in S : \A k \in S : ~(<<k, n>> \in OpToRel(<, Nat))
    BY WFMin, NatLessThanWellFounded
  <1>2. \A k \in S : ~(k < n)
    BY <1>1 DEF OpToRel
  <1> QED
    BY <1>2

\* Among finitely many rows that have ended, one has ended last, and of those
\* that ended at that moment one has the highest id: LastExpired finds one.
LEMMA LastExists ==
  ASSUME NEW n \in Nat, NEW S \in SUBSET (1..n), S # {}, NEW e, NEW t \in Nat,
         \A i \in S : e[i] \in Nat /\ e[i] <= t
  PROVE  \E i \in S : \A j \in S : e[j] < e[i] \/ (e[j] = e[i] /\ j <= i)
  <1> DEFINE D == {d \in Nat : \E i \in S : d = t - e[i]}
  <1>1. D # {} /\ D \in SUBSET Nat
    <2>1. PICK i \in S : TRUE
      OBVIOUS
    <2>2. t - e[i] \in Nat
      OBVIOUS
    <2> QED
      BY <2>2
  <1>2. PICK d \in D : \A k \in D : d <= k
    BY <1>1, LeastOf
  <1>3. PICK i1 \in S : d = t - e[i1]
    BY <1>2
  <1>4. \A j \in S : e[j] <= e[i1]
    <2> TAKE j \in S
    <2>1. t - e[j] \in D
      OBVIOUS
    <2>2. d <= t - e[j]
      BY <1>2, <2>1
    <2> QED
      BY <2>2, <1>3
  <1> DEFINE H == {h \in Nat : \E i \in S : e[i] = e[i1] /\ h = n - i}
  <1>5. H # {} /\ H \in SUBSET Nat
    <2>1. n - i1 \in Nat
      OBVIOUS
    <2> QED
      BY <2>1
  <1> HIDE DEF D
  <1>6. PICK h \in H : \A k \in H : h <= k
    BY <1>5, LeastOf
  <1>7. PICK i2 \in S : e[i2] = e[i1] /\ h = n - i2
    BY <1>6
  <1>8. \A j \in S : e[j] = e[i2] => j <= i2
    <2> TAKE j \in S
    <2> HAVE e[j] = e[i2]
    <2>1. n - j \in Nat
      OBVIOUS
    <2>2. n - j \in H
      BY <2>1, <1>7
    <2>3. h <= n - j
      BY <1>6, <2>2
    <2> QED
      BY <2>3, <1>7
  <1>9. \A j \in S : e[j] < e[i2] \/ (e[j] = e[i2] /\ j <= i2)
    BY <1>4, <1>7, <1>8
  <1> QED
    BY <1>9

\* The groups: the base group is no upgrade, and none is the empty name.
LEMMA GroupNames ==
  /\ \A g \in Upgrades : g # Base /\ g # None /\ g \in Groups
  /\ Base # None /\ Base \in Groups
  BY GroupAssumption DEF Groups

\* The rows are numbered from one.
LEMMA Rows ==
  ASSUME TypeOK
  PROVE  /\ Len(subs) \in Nat /\ Ids = 1..Len(subs) /\ subs \in [1..Len(subs) -> Sub]
         /\ \A i \in Ids : subs[i] \in Sub /\ i \in Nat
  BY LenProperties DEF TypeOK, Ids

\* Types of the columns of a row.
LEMMA RowFields ==
  ASSUME TypeOK, NEW i \in Ids
  PROVE  /\ subs[i].status \in {"active", "expired", "cancelled", "deleted"}
         /\ subs[i].ends \in Nat
         /\ subs[i].up \in Upgrades \cup {None}
         /\ subs[i].prev \in Groups \cup {None}
  BY Rows DEF Sub

-----------------------------------------------------------------------------
(* Steps that rewrite rows. *)

\* The rows keep their upgrade and their previous group; none comes back to
\* life, and the end of one that is neither cancelled nor deleted is as it was.
Rewritten ==
    /\ subs' \in Seq(Sub)
    /\ Ids' = Ids
    /\ \A i \in Ids :
          /\ subs'[i].up = subs[i].up /\ subs'[i].prev = subs[i].prev
          /\ subs'[i].status = "active" => subs[i].status = "active"
          /\ RunsOut(i)' => RunsOut(i) /\ subs'[i].ends = subs[i].ends

\* Steps that create no row keep the order of succession and take no upgrade
\* away from the past.
LEMMA RewrittenKeeps ==
  ASSUME GroupInv, Rewritten, now' = now
  PROVE  /\ FromBase' <=> FromBase
         /\ Succession'
         /\ \A but, t : UpgradedAt(t, but)' => UpgradedAt(t, but)
  <1> USE DEF GroupInv
  <1>1. FromBase' <=> FromBase
    BY DEF Rewritten, FromBase
  <1>2. Succession'
    BY <1>1 DEF Rewritten, Succession
  <1>3. ASSUME NEW but, NEW t, UpgradedAt(t, but)' PROVE UpgradedAt(t, but)
    <2>1. PICK i \in Ids \ but : subs'[i].status = "active" /\ subs'[i].ends > t /\ subs'[i].up # None
      BY <1>3 DEF UpgradedAt, Active, Rewritten
    <2>2. subs[i].status = "active" /\ subs[i].up # None /\ subs'[i].ends = subs[i].ends
      BY <2>1 DEF Rewritten, RunsOut
    <2> QED
      BY <2>1, <2>2 DEF UpgradedAt, Active
  <1> QED
    BY <1>1, <1>2, <1>3

\* One row is given another status, or another end with it.
LEMMA OneRow ==
  ASSUME TypeOK, NEW i \in Ids, NEW r \in Sub, subs' = [subs EXCEPT ![i] = r],
         r.up = subs[i].up, r.prev = subs[i].prev, r.status \in {"cancelled", "deleted"}
  PROVE  /\ Rewritten
         /\ subs'[i].status \in {"cancelled", "deleted"}
         /\ \A j \in Ids : j # i => subs'[j] = subs[j]
  <1>1. i \in 1..Len(subs) /\ subs \in Seq(Sub) /\ Len(subs) \in Nat /\ Ids = 1..Len(subs)
    BY Rows DEF TypeOK
  <1>2. /\ subs' \in Seq(Sub) /\ Len(subs') = Len(subs)
        /\ \A j \in 1..Len(subs) : subs'[j] = IF j = i THEN r ELSE subs[j]
    BY <1>1, ExceptSeq
  <1>3. Ids' = Ids
    BY <1>1, <1>2, LenProperties DEF Ids
  <1>4. \A j \in Ids : subs'[j] = IF j = i THEN r ELSE subs[j]
    BY <1>1, <1>2
  <1>5. r.status \notin {"active", "expired"}
    OBVIOUS
  <1> QED
    BY <1>2, <1>3, <1>4, <1>5 DEF Rewritten, RunsOut

\* Cancelling or deleting: downgradeUserGroupForSubscriptionTx.
LEMMA DowngradeKeeps ==
  ASSUME GroupInv, NEW i \in Ids, NEW r \in Sub, subs' = [subs EXCEPT ![i] = r],
         r.up = subs[i].up, r.prev = subs[i].prev, r.status \in {"cancelled", "deleted"},
         group' = Downgraded(i), now' = now
  PROVE  GroupInv'
  <1> USE DEF GroupInv
  <1>1. /\ Rewritten
        /\ subs'[i].status \in {"cancelled", "deleted"}
        /\ \A j \in Ids : j # i => subs'[j] = subs[j]
    BY OneRow
  <1>2. /\ FromBase' <=> FromBase
        /\ Succession'
        /\ \A but, t : UpgradedAt(t, but)' => UpgradedAt(t, but)
    BY <1>1, RewrittenKeeps
  <1>3. group' = group \/
           (/\ subs[i].up = group /\ ~UpgradedAt(now, {i})
            /\ subs[i].prev # None /\ group' = subs[i].prev)
    BY DEF Downgraded
  <1>4. TypeOK'
    BY <1>1, <1>3, RowFields DEF TypeOK, Rewritten
  <1>5. UpgradedAt(now, {})' => UpgradedAt(now, {i})
    <2> SUFFICES ASSUME UpgradedAt(now, {})' PROVE UpgradedAt(now, {i})
      OBVIOUS
    <2>1. PICK j \in Ids : subs'[j].status = "active" /\ subs'[j].ends > now /\ subs'[j].up # None
      BY <1>1 DEF UpgradedAt, Active, Rewritten
    <2>2. j # i
      BY <2>1, <1>1
    <2> QED
      BY <2>1, <2>2, <1>1 DEF UpgradedAt, Active
  <1>6. PaidKeepsUpgrade'
    BY <1>2, <1>3, <1>5 DEF PaidKeepsUpgrade
  <1>7. ExpiredPast'
    BY <1>1 DEF ExpiredPast, Rewritten
  <1>8. LentByLatest'
    <2> SUFFICES ASSUME FromBase, group' # Base
                 PROVE  \E k \in Ids' : /\ subs'[k].status = "active" /\ subs'[k].up = group'
                                        /\ \A j \in Ids' : k < j => subs'[j].up = None
      BY <1>2 DEF LentByLatest
    <2>1. group' = group
      <3>1. group # None
        BY GroupNames DEF TypeOK, Groups
      <3>2. subs[i].up = group => subs[i].prev = Base
        BY <3>1 DEF FromBase
      <3> QED
        BY <1>3, <3>2
    <2>2. PICK k \in Ids : /\ subs[k].status = "active" /\ subs[k].up = group
                           /\ \A j \in Ids : k < j => subs[j].up = None
      BY <2>1 DEF LentByLatest
    <2>3. k # i
      <3> SUFFICES ASSUME k = i PROVE FALSE
        OBVIOUS
      <3>1. group # None
        BY GroupNames DEF TypeOK, Groups
      <3>2. subs[i].prev = Base
        BY <2>2, <3>1 DEF FromBase
      <3>3. UpgradedAt(now, {i})
        BY <2>1, <2>2, <3>2, GroupNames DEF Downgraded
      <3>4. PICK j \in Ids : j # i /\ subs[j].status = "active" /\ subs[j].ends > now /\ subs[j].up # None
        BY <3>3 DEF UpgradedAt, Active
      <3>5. j < i
        BY <3>4, <2>2, Rows
      <3>6. subs[j].ends <= now
        BY <3>1, <3>4, <3>5, <2>2 DEF Succession, RunsOut
      <3> QED
        BY <3>4, <3>6, RowFields DEF TypeOK
    <2> QED
      BY <2>1, <2>2, <2>3, <1>1 DEF Rewritten
  <1>9. UpgradeReturned'
    BY <1>8 DEF LentByLatest, UpgradeReturned
  <1> QED
    BY <1>2, <1>4, <1>6, <1>7, <1>8, <1>9

\* A cancellation preserves the invariant.
LEMMA InvalidateKeeps ==
  ASSUME GroupInv, NEW i \in Ids, Invalidate(i)
  PROVE  GroupInv'
  <1>1. TypeOK
    BY DEF GroupInv
  <1>2. PICK t \in Nat : t = now
    BY <1>1 DEF TypeOK
  <1> DEFINE r == [subs[i] EXCEPT !.status = "cancelled", !.ends = t]
  <1>3. r \in Sub /\ r.up = subs[i].up /\ r.prev = subs[i].prev /\ r.status = "cancelled"
    BY <1>1, <1>2, Rows DEF Sub
  <1>4. subs' = [subs EXCEPT ![i] = r] /\ group' = Downgraded(i) /\ now' = now
    BY <1>1, <1>2, Rows DEF Invalidate
  <1> HIDE DEF r
  <1>5. PICK q \in Sub : q = r
    BY <1>3
  <1> QED
    BY <1>3, <1>4, <1>5, DowngradeKeeps

\* A deletion preserves the invariant.
LEMMA DeleteKeeps ==
  ASSUME GroupInv, NEW i \in Ids, Delete(i)
  PROVE  GroupInv'
  <1>1. TypeOK
    BY DEF GroupInv
  <1> DEFINE r == [subs[i] EXCEPT !.status = "deleted"]
  <1>3. r \in Sub /\ r.up = subs[i].up /\ r.prev = subs[i].prev /\ r.status = "deleted"
    BY <1>1, Rows DEF Sub
  <1>4. subs' = [subs EXCEPT ![i] = r] /\ group' = Downgraded(i) /\ now' = now
    BY <1>1, Rows DEF Delete
  <1> HIDE DEF r
  <1>5. PICK q \in Sub : q = r
    BY <1>3
  <1> QED
    BY <1>3, <1>4, <1>5, DowngradeKeeps

-----------------------------------------------------------------------------
(* ExpireDueSubscriptions. *)

\* The rows with what is due at t marked expired.
Due(t) == {i \in Ids : subs[i].status = "active" /\ subs[i].ends <= t}

Marked(t) == [i \in Ids |-> IF i \in Due(t) THEN [subs[i] EXCEPT !.status = "expired"]
                            ELSE subs[i]]

Lapsed(ss) == {i \in DOMAIN ss : ss[i].status = "expired" /\ ss[i].up # None}

\* Expiry changes nothing but the status of the rows that are due.
LEMMA MarkedRows ==
  ASSUME GroupInv, NEW t \in 1..now
  PROVE  /\ Marked(t) \in Seq(Sub) /\ DOMAIN Marked(t) = Ids
         /\ \A i \in Ids :
               /\ Marked(t)[i].up = subs[i].up /\ Marked(t)[i].prev = subs[i].prev
               /\ Marked(t)[i].ends = subs[i].ends
               /\ i \in Due(t) => Marked(t)[i].status = "expired"
               /\ i \notin Due(t) => Marked(t)[i].status = subs[i].status
               /\ Marked(t)[i].status = "expired" => subs[i].ends <= now
  <1> USE DEF GroupInv
  <1>1. /\ Len(subs) \in Nat /\ Ids = 1..Len(subs)
        /\ \A i \in Ids : subs[i] \in Sub
    BY Rows
  <1>2. ASSUME NEW i \in Ids
        PROVE  /\ Marked(t)[i] \in Sub
               /\ Marked(t)[i].up = subs[i].up /\ Marked(t)[i].prev = subs[i].prev
               /\ Marked(t)[i].ends = subs[i].ends
               /\ i \in Due(t) => Marked(t)[i].status = "expired"
               /\ i \notin Due(t) => Marked(t)[i].status = subs[i].status
    <2>1. CASE i \in Due(t)
      <3> DEFINE r == [subs[i] EXCEPT !.status = "expired"]
      <3>1. r \in Sub /\ r.up = subs[i].up /\ r.prev = subs[i].prev /\ r.ends = subs[i].ends
            /\ r.status = "expired"
        BY <1>1 DEF Sub
      <3>2. Marked(t)[i] = r
        BY <2>1 DEF Marked
      <3> HIDE DEF r
      <3> QED
        BY <2>1, <3>1, <3>2
    <2>2. CASE i \notin Due(t)
      BY <1>1, <2>2 DEF Marked
    <2> QED
      BY <2>1, <2>2
  <1>3. DOMAIN Marked(t) = Ids /\ Marked(t) = [i \in Ids |-> Marked(t)[i]]
    BY DEF Marked
  <1>4. Marked(t) \in [1..Len(subs) -> Sub]
    BY <1>1, <1>2, <1>3
  <1>5. Marked(t) \in Seq(Sub)
    BY <1>1, <1>4
  <1>6. ASSUME NEW i \in Ids, Marked(t)[i].status = "expired" PROVE subs[i].ends <= now
    <2>1. subs[i].ends \in Nat /\ now \in Nat /\ t \in Nat /\ t <= now
      BY RowFields DEF TypeOK
    <2>2. CASE i \in Due(t)
      BY <2>1, <2>2 DEF Due
    <2>3. CASE i \notin Due(t)
      BY <1>2, <1>6, <2>3 DEF ExpiredPast
    <2> QED
      BY <2>2, <2>3
  <1> QED
    BY <1>2, <1>3, <1>5, <1>6

\* LastExpired is one of them, and none of them ended after it.
LEMMA LastIsLapsed ==
  ASSUME GroupInv, NEW t \in 1..now, NEW ss, ss = Marked(t), Lapsed(ss) # {}
  PROVE  /\ LastExpired(ss) \in Lapsed(ss)
         /\ \A j \in Lapsed(ss) :
               \/ ss[j].ends < ss[LastExpired(ss)].ends
               \/ ss[j].ends = ss[LastExpired(ss)].ends /\ j <= LastExpired(ss)
  <1> USE DEF GroupInv
  <1>1. Len(subs) \in Nat /\ Ids = 1..Len(subs) /\ now \in Nat
    BY Rows DEF TypeOK
  <1>2. Lapsed(ss) \in SUBSET (1..Len(subs))
    BY <1>1, MarkedRows DEF Lapsed
  <1> DEFINE e == [i \in Ids |-> ss[i].ends]
  <1>3. \A i \in Lapsed(ss) : e[i] = ss[i].ends /\ e[i] \in Nat /\ e[i] <= now
    <2> TAKE i \in Lapsed(ss)
    <2>1. i \in Ids /\ ss[i].status = "expired"
      BY MarkedRows DEF Lapsed
    <2>2. ss[i].ends = subs[i].ends /\ subs[i].ends <= now
      BY <2>1, MarkedRows
    <2> QED
      BY <2>1, <2>2, RowFields
  <1> HIDE DEF e
  <1>4. \E i \in Lapsed(ss) : \A j \in Lapsed(ss) : e[j] < e[i] \/ (e[j] = e[i] /\ j <= i)
    BY <1>1, <1>2, <1>3, LastExists
  <1>5. \E i \in Lapsed(ss) : \A j \in Lapsed(ss) :
           ss[j].ends < ss[i].ends \/ (ss[j].ends = ss[i].ends /\ j <= i)
    BY <1>3, <1>4
  <1>6. LastExpired(ss) = CHOOSE i \in Lapsed(ss) : \A j \in Lapsed(ss) :
           ss[j].ends < ss[i].ends \/ (ss[j].ends = ss[i].ends /\ j <= i)
    BY DEF LastExpired, Lapsed
  <1> HIDE DEF GroupInv
  <1> QED
    BY <1>5, <1>6, Zenon

\* Expiry preserves the invariant: the group goes back to what the last
\* expired upgrade had found.
LEMMA ExpireKeeps ==
  ASSUME GroupInv, NEW t \in 1..now, ExpireDue(t)
  PROVE  GroupInv'
  <1> USE DEF GroupInv
  <1>1. PICK ss : ss = Marked(t)
    OBVIOUS
  <1>2. /\ ss \in Seq(Sub) /\ DOMAIN ss = Ids
        /\ \A i \in Ids :
              /\ ss[i].up = subs[i].up /\ ss[i].prev = subs[i].prev
              /\ ss[i].ends = subs[i].ends
              /\ i \in Due(t) => ss[i].status = "expired"
              /\ i \notin Due(t) => ss[i].status = subs[i].status
              /\ ss[i].status = "expired" => subs[i].ends <= now
    BY <1>1, MarkedRows
  <1>3. /\ subs' = ss /\ now' = now
        /\ \/ group' = group
           \/ /\ ~UpgradedAt(t, {}) /\ Lapsed(ss) # {}
              /\ ss[LastExpired(ss)].prev # None /\ ss[LastExpired(ss)].up = group
              /\ group' = ss[LastExpired(ss)].prev
        /\ \/ UpgradedAt(t, {}) \/ Lapsed(ss) = {} \/ ss[LastExpired(ss)].prev = None
           \/ ss[LastExpired(ss)].up # group
           \/ group' = ss[LastExpired(ss)].prev
    BY <1>1, <1>2, ZenonT(60) DEF ExpireDue, Marked, Due, Lapsed
  <1>4. Lapsed(ss) # {} => /\ LastExpired(ss) \in Lapsed(ss)
                           /\ \A j \in Lapsed(ss) :
                                 \/ ss[j].ends < ss[LastExpired(ss)].ends
                                 \/ ss[j].ends = ss[LastExpired(ss)].ends /\ j <= LastExpired(ss)
    BY <1>1, LastIsLapsed
  <1>5. Rewritten
    BY <1>2, <1>3 DEF Rewritten, Ids, RunsOut, Due
  <1>6. /\ FromBase' <=> FromBase
        /\ Succession'
        /\ \A but, u : UpgradedAt(u, but)' => UpgradedAt(u, but)
    BY <1>3, <1>5, RewrittenKeeps
  <1>7. TypeOK'
    <2>1. group' \in Groups
      <3>1. CASE group' = group
        BY <3>1 DEF TypeOK
      <3>2. CASE group' # group
        <4>1. PICK k \in Ids : k = LastExpired(ss)
          BY <3>2, <1>2, <1>3, <1>4 DEF Lapsed
        <4>2. group' = subs[k].prev /\ group' # None
          BY <3>2, <4>1, <1>2, <1>3
        <4> QED
          BY <4>2, RowFields
      <3> QED
        BY <3>1, <3>2
    <2> QED
      BY <2>1, <1>2, <1>3 DEF TypeOK
  <1>8. PaidKeepsUpgrade'
    <2>1. UpgradedAt(now, {}) => UpgradedAt(t, {})
      <3> SUFFICES ASSUME UpgradedAt(now, {}) PROVE UpgradedAt(t, {})
        OBVIOUS
      <3>1. PICK j \in Ids : subs[j].status = "active" /\ subs[j].ends > now /\ subs[j].up # None
        BY DEF UpgradedAt, Active
      <3>2. subs[j].ends > t
        BY <3>1, RowFields DEF TypeOK
      <3> QED
        BY <3>1, <3>2 DEF UpgradedAt, Active
    <2>2. UpgradedAt(now, {})' => UpgradedAt(now, {})
      <3>1. \A j \in Ids : subs'[j].status = "active" => subs[j].status = "active" /\ subs'[j].ends = subs[j].ends /\ subs'[j].up = subs[j].up
        BY <1>2, <1>3, <1>5 DEF Rewritten
      <3> QED
        BY <1>3, <1>5, <3>1 DEF UpgradedAt, Active, Rewritten
    <2> QED
      BY <1>3, <2>1, <2>2 DEF PaidKeepsUpgrade
  <1>9. ExpiredPast'
    BY <1>2, <1>3, <1>5 DEF ExpiredPast, Rewritten
  <1>10. LentByLatest'
    <2> SUFFICES ASSUME FromBase, group' # Base
                 PROVE  \E k \in Ids' : /\ subs'[k].status = "active" /\ subs'[k].up = group'
                                        /\ \A j \in Ids' : k < j => subs'[j].up = None
      BY <1>6 DEF LentByLatest
    <2>1. group' = group
      <3> SUFFICES ASSUME group' # group PROVE FALSE
        OBVIOUS
      <3>1. PICK k \in Ids : k = LastExpired(ss) /\ ss[k].up # None
        BY <1>2, <1>3, <1>4 DEF Lapsed
      <3>2. group' = subs[k].prev /\ subs[k].up # None
        BY <3>1, <1>2, <1>3
      <3> QED
        BY <3>2 DEF FromBase
    <2>2. PICK k \in Ids : /\ subs[k].status = "active" /\ subs[k].up = group
                           /\ \A j \in Ids : k < j => subs[j].up = None
      BY <2>1 DEF LentByLatest
    <2>3. group # None /\ subs[k].prev = Base
      <3>1. group # None
        BY GroupNames DEF TypeOK, Groups
      <3> QED
        BY <2>2, <3>1 DEF FromBase
    <2>4. k \notin Due(t)
      <3> SUFFICES ASSUME k \in Due(t) PROVE FALSE
        OBVIOUS
      <3>1. ss[k].status = "expired" /\ ss[k].up = group /\ ss[k].prev = Base /\ k \in Lapsed(ss)
        BY <1>2, <2>2, <2>3 DEF Lapsed
      <3>2. \A j \in Ids : j # k /\ subs[j].up # None => j < k
        BY <2>2, Rows
      <3>3. \A j \in Lapsed(ss) : j # k => ss[j].ends < ss[k].ends
        <4> TAKE j \in Lapsed(ss)
        <4> HAVE j # k
        <4>1. j \in Ids /\ subs[j].up # None /\ RunsOut(j)
          BY <1>2 DEF Lapsed, RunsOut, Due
        <4>2. RunsOut(k) /\ subs[k].up # None
          BY <2>2, <2>3 DEF RunsOut
        <4>3. subs[j].ends < subs[k].ends
          BY <4>1, <4>2, <3>2 DEF Succession
        <4> QED
          BY <4>1, <4>3, <1>2
      <3>4. LastExpired(ss) = k
        <4>1. PICK l \in Ids : l = LastExpired(ss) /\ l \in Lapsed(ss)
          BY <3>1, <1>2, <1>4 DEF Lapsed
        <4>2. ss[k].ends < ss[l].ends \/ ss[k].ends = ss[l].ends
          BY <3>1, <4>1, <1>4
        <4>3. ss[l].ends \in Nat /\ ss[k].ends \in Nat
          BY <1>2, RowFields
        <4>4. l = k
          BY <4>1, <4>2, <4>3, <3>3
        <4> QED
          BY <4>1, <4>4
      <3>5. UpgradedAt(t, {})
        BY <1>3, <2>1, <3>1, <3>4, GroupNames
      <3>6. PICK j \in Ids : subs[j].status = "active" /\ subs[j].ends > t /\ subs[j].up # None
        BY <3>5 DEF UpgradedAt, Active
      <3>7. subs[k].ends \in Nat /\ subs[j].ends \in Nat /\ t \in Nat /\ subs[k].ends <= t
        BY RowFields DEF Due, TypeOK
      <3>8. j # k
        BY <3>6, <3>7
      <3>9. subs[j].ends < subs[k].ends
        BY <3>2, <3>6, <3>8, <2>2, <2>3 DEF Succession, RunsOut
      <3> QED
        BY <3>6, <3>7, <3>9
    <2>5. subs'[k].status = "active" /\ subs'[k].up = group'
      BY <1>2, <1>3, <2>1, <2>2, <2>4
    <2> QED
      BY <2>2, <2>5, <1>5 DEF Rewritten
  <1>11. UpgradeReturned'
    BY <1>10 DEF LentByLatest, UpgradeReturned
  <1> QED
    BY <1>6, <1>7, <1>8, <1>9, <1>10, <1>11

-----------------------------------------------------------------------------
(* A purchase, and the clock. *)

\* A purchase preserves the invariant.
LEMMA PurchaseKeeps ==
  ASSUME GroupInv, NEW g \in Upgrades \cup {None}, NEW d \in Durations, Purchase(g, d)
  PROVE  GroupInv'
  <1> USE DEF GroupInv
  <1>1. PICK n \in Nat : n = Len(subs) + 1
    BY Rows
  <1>2. d \in Nat /\ d > 0 /\ now \in Nat
    BY GroupAssumption DEF TypeOK
  <1>3. PICK e \in Nat : e = now + d
    BY <1>2
  <1>4. PICK p \in Groups \cup {None} : p = PrevGroup(g)
    BY DEF PrevGroup, TypeOK
  <1> DEFINE r == [status |-> "active", ends |-> e, up |-> g, prev |-> p]
  <1>5. r \in Sub /\ r.status = "active" /\ r.ends = e /\ r.up = g /\ r.prev = p
    BY DEF Sub
  <1>6. subs' = Append(subs, r) /\ now' = now /\ group' = IF g # None THEN g ELSE group
    BY <1>3, <1>4 DEF Purchase
  <1> HIDE DEF r
  <1>7. /\ subs' \in Seq(Sub) /\ Len(subs') = n
        /\ subs'[n] = r /\ \A i \in 1..Len(subs) : subs'[i] = subs[i]
    BY <1>1, <1>5, <1>6 DEF TypeOK
  <1>8. /\ \A i : i \in Ids' <=> i \in Ids \/ i = n
        /\ \A i \in Ids : i < n /\ i # n /\ subs'[i] = subs[i]
        /\ \A i \in Ids : i \in Nat
    <2>1. DOMAIN subs' = 1..n
      BY <1>7, LenProperties
    <2>2. Ids = 1..Len(subs) /\ Len(subs) \in Nat
      BY Rows
    <2> QED
      BY <2>1, <2>2, <1>1, <1>7 DEF Ids
  <1>9. TypeOK'
    BY <1>6, <1>7, GroupNames DEF TypeOK
  <1>10. FromBase' => FromBase /\ (g # None => p = Base)
    BY <1>5, <1>7, <1>8 DEF FromBase
  <1>11. g # None /\ p = Base => group = Base
    BY <1>4, GroupNames DEF PrevGroup
  <1>12. PaidKeepsUpgrade'
    <2>1. CASE g # None
      BY <2>1, <1>6, GroupNames DEF PaidKeepsUpgrade
    <2>2. CASE g = None
      <3> SUFFICES ASSUME UpgradedAt(now, {})' PROVE UpgradedAt(now, {})
        BY <2>2, <1>6 DEF PaidKeepsUpgrade
      <3>1. PICK i \in Ids' : subs'[i].status = "active" /\ subs'[i].ends > now /\ subs'[i].up # None
        BY <1>6 DEF UpgradedAt, Active
      <3>2. i \in Ids
        BY <3>1, <2>2, <1>5, <1>7, <1>8
      <3> QED
        BY <3>1, <3>2, <1>8 DEF UpgradedAt, Active
    <2> QED
      BY <2>1, <2>2
  <1>13. ExpiredPast'
    <2> SUFFICES ASSUME NEW i \in Ids', subs'[i].status = "expired" PROVE subs'[i].ends <= now
      BY <1>6 DEF ExpiredPast
    <2>1. i \in Ids
      BY <1>5, <1>7, <1>8
    <2> QED
      BY <2>1, <1>8 DEF ExpiredPast
  <1>14. Succession'
    <2> SUFFICES ASSUME FromBase', NEW i \in Ids', NEW j \in Ids', i < j, subs'[i].up # None,
                        subs'[j].up # None, RunsOut(i)'
                 PROVE  subs'[i].ends <= now /\ (RunsOut(j)' => subs'[i].ends < subs'[j].ends)
      BY <1>6 DEF Succession
    <2>1. i \in Ids
      BY <1>1, <1>8
    <2>2. subs[i].up # None /\ RunsOut(i) /\ subs'[i].ends = subs[i].ends
      BY <2>1, <1>8 DEF RunsOut
    <2>3. CASE j \in Ids
      BY <2>1, <2>2, <2>3, <1>8, <1>10 DEF Succession, RunsOut
    <2>4. CASE j = n
      <3>1. g # None /\ group = Base /\ subs'[j].ends = now + d
        BY <2>4, <1>3, <1>5, <1>7, <1>10, <1>11
      <3>2. ~UpgradedAt(now, {})
        BY <3>1 DEF PaidKeepsUpgrade
      <3>3. subs[i].ends \in Nat
        BY <2>1, RowFields
      <3>4. subs[i].ends <= now
        BY <2>1, <2>2, <3>2, <3>3, <1>2 DEF UpgradedAt, Active, RunsOut, ExpiredPast
      <3> QED
        BY <2>2, <3>1, <3>3, <3>4, <1>2
    <2> QED
      BY <2>3, <2>4, <1>8
  <1>15. LentByLatest'
    <2> SUFFICES ASSUME FromBase', group' # Base
                 PROVE  \E k \in Ids' : /\ subs'[k].status = "active" /\ subs'[k].up = group'
                                        /\ \A j \in Ids' : k < j => subs'[j].up = None
      BY DEF LentByLatest
    <2>1. CASE g # None
      <3>1. subs'[n].status = "active" /\ subs'[n].up = group'
        BY <2>1, <1>5, <1>6, <1>7
      <3>2. \A j \in Ids' : ~(n < j)
        BY <1>1, <1>8
      <3> QED
        BY <3>1, <3>2, <1>8
    <2>2. CASE g = None
      <3>1. PICK k \in Ids : /\ subs[k].status = "active" /\ subs[k].up = group
                             /\ \A j \in Ids : k < j => subs[j].up = None
        BY <2>2, <1>6, <1>10 DEF LentByLatest
      <3> QED
        BY <2>2, <3>1, <1>5, <1>6, <1>7, <1>8
    <2> QED
      BY <2>1, <2>2
  <1>16. UpgradeReturned'
    BY <1>15 DEF LentByLatest, UpgradeReturned
  <1> QED
    BY <1>9, <1>12, <1>13, <1>14, <1>15, <1>16

\* The passing of time preserves the invariant.
LEMMA TickKeeps ==
  ASSUME GroupInv, Tick
  PROVE  GroupInv'
  <1> USE DEF GroupInv
  <1>1. now \in Nat /\ now' = now + 1 /\ group' = group /\ subs' = subs
    BY DEF Tick, TypeOK
  <1>2. Ids' = Ids /\ \A i \in Ids : subs[i].ends \in Nat
    BY <1>1, RowFields DEF Ids
  <1>3. TypeOK' /\ ExpiredPast'
    BY <1>1, <1>2 DEF TypeOK, ExpiredPast
  <1>4. PaidKeepsUpgrade'
    <2>1. UpgradedAt(now, {})' => UpgradedAt(now, {})
      BY <1>1, <1>2 DEF UpgradedAt, Active
    <2> QED
      BY <1>1, <2>1 DEF PaidKeepsUpgrade
  <1>5. FromBase' <=> FromBase
    BY <1>1, <1>2 DEF FromBase
  <1>6. Succession'
    BY <1>1, <1>2, <1>5 DEF Succession, RunsOut
  <1>7. LentByLatest' /\ UpgradeReturned'
    BY <1>1, <1>2, <1>5 DEF LentByLatest, UpgradeReturned
  <1> QED
    BY <1>3, <1>4, <1>6, <1>7

\* The invariant holds before the first purchase.
LEMMA InitGroup == Init => GroupInv
  <1> SUFFICES ASSUME Init PROVE GroupInv
    OBVIOUS
  <1>1. now = 1 /\ group = Base /\ subs = <<>> /\ Ids = {}
    BY DEF Init, Ids
  <1>2. TypeOK
    BY <1>1, GroupNames DEF TypeOK
  <1> QED
    BY <1>1, <1>2 DEF GroupInv, PaidKeepsUpgrade, UpgradedAt, UpgradeReturned, ExpiredPast,
                      Succession, LentByLatest

\* Every step preserves the invariant.
LEMMA NextGroup == GroupInv /\ [Next]_vars => GroupInv'
  <1> SUFFICES ASSUME GroupInv, [Next]_vars PROVE GroupInv'
    OBVIOUS
  <1>1. ASSUME NEW g \in Upgrades \cup {None}, NEW d \in Durations, Purchase(g, d)
        PROVE  GroupInv'
    BY <1>1, PurchaseKeeps
  <1>2. ASSUME NEW i \in Ids, Invalidate(i) \/ Delete(i) PROVE GroupInv'
    BY <1>2, InvalidateKeeps, DeleteKeeps
  <1>3. ASSUME NEW t \in 1..now, ExpireDue(t) PROVE GroupInv'
    BY <1>3, ExpireKeeps
  <1>4. CASE Tick
    BY <1>4, TickKeeps
  <1>5. CASE Rest \/ UNCHANGED vars
    BY <1>5 DEF Rest, vars, GroupInv, TypeOK, PaidKeepsUpgrade, UpgradedAt, Active, Ids,
                UpgradeReturned, FromBase, ExpiredPast, Succession, RunsOut, LentByLatest
  <1> QED
    BY <1>1, <1>2, <1>3, <1>4, <1>5 DEF Next

\* The group follows the subscriptions for any number of them: no cancelling,
\* deleting or expiring takes the upgrade from a user who still pays for one,
\* and when each upgrade started from the base group and none is active, the
\* user is back in the base group.
THEOREM Inductive == Spec => []GroupInv
  <1> QED
    BY InitGroup, NextGroup, PTL DEF Spec

=============================================================================
