---------------------- MODULE SubscriptionLedger_proofs ----------------------
(* The subscription rows under concurrent transactions: proofs for any     *)
(* number of subscriptions, requests and resets.                           *)
EXTENDS SubscriptionLedger, Sums, TLAPS

-----------------------------------------------------------------------------
(* The operators. *)

\* A non-empty set of natural numbers has a least element.
LEMMA LeastOf ==
  ASSUME NEW S \in SUBSET Nat, S # {}
  PROVE  \E n \in S : \A k \in S : n <= k
  <1>1. PICK n \in S : \A k \in S : ~(<<k, n>> \in OpToRel(<, Nat))
    BY WFMin, NatLessThanWellFounded
  <1>2. \A k \in S : ~(k < n)
    BY <1>1 DEF OpToRel
  <1> QED
    BY <1>2

\* A set of moments up to t has a latest one.
LEMMA LatestOf ==
  ASSUME NEW t \in Nat, NEW S \in SUBSET (0..t), S # {}
  PROVE  \E n \in S : \A k \in S : k <= n
  <1> DEFINE D == {d \in Nat : \E n \in S : d = t - n}
  <1>1. D \in SUBSET Nat /\ D # {}
    <2>1. PICK n \in S : TRUE
      OBVIOUS
    <2>2. t - n \in Nat
      OBVIOUS
    <2> QED
      BY <2>2
  <1>2. PICK d \in D : \A e \in D : d <= e
    BY <1>1, LeastOf
  <1>3. PICK n \in S : d = t - n
    BY <1>2
  <1>4. \A k \in S : k <= n
    <2> TAKE k \in S
    <2>1. t - k \in D
      OBVIOUS
    <2>2. d <= t - k
      BY <1>2, <2>1
    <2> QED
      BY <2>2, <1>3
  <1> QED
    BY <1>4

\* What the assumptions say about the constants.
LEMMA Constants ==
  /\ \A i \in Subs : i \in Nat /\ i # 0 /\ Ends[i] \in Nat
  /\ \A a \in Amounts : a \in Nat /\ a # 0
  /\ Total \in Nat /\ ResetEvery \in Nat /\ MaxTime \in Nat
  /\ "reset" \notin Requests /\ "reset" \in Owners /\ \A r \in Requests : r \in Owners /\ r # "reset"
  BY LedgerAssumption DEF Owners

\* Types of the columns of a row.
LEMMA RowFields ==
  ASSUME NEW w \in Row
  PROVE  /\ w.exists \in BOOLEAN /\ w.status \in Statuses
         /\ w.ends \in Nat /\ w.used \in Nat /\ w.last \in Nat /\ w.next \in Nat
  BY DEF Row

\* The row differs from w in its reset times at most, and has not more used.
ResetOf(w, v) ==
    /\ v \in Row
    /\ v.exists = w.exists /\ v.status = w.status /\ v.ends = w.ends
    /\ v.used <= w.used

\* The next reset time is a natural number.
LEMMA NextResetType ==
  ASSUME NEW base \in Nat, NEW ends \in Nat
  PROVE  NextReset(base, ends) \in Nat
  BY Constants DEF NextReset

\* A reset of the used amount and of the reset times keeps everything else.
LEMMA ResetRow ==
  ASSUME NEW w \in Row, NEW u \in Nat, u <= w.used, NEW l \in Nat, NEW n \in Nat
  PROVE  ResetOf(w, [w EXCEPT !.used = u, !.last = l, !.next = n])
  <1> DEFINE v == [w EXCEPT !.used = u, !.last = l, !.next = n]
  <1>1. v \in Row
    BY DEF Row
  <1>2. v.exists = w.exists /\ v.status = w.status /\ v.ends = w.ends /\ v.used = u
    BY DEF Row
  <1> HIDE DEF v
  <1>3. ResetOf(w, v)
    BY <1>1, <1>2 DEF ResetOf
  <1> QED
    BY <1>3 DEF v

\* So does filling in missing reset times.
LEMMA FilledRow ==
  ASSUME NEW w \in Row, NEW l \in Nat, NEW n \in Nat
  PROVE  ResetOf(w, [w EXCEPT !.next = n, !.last = l])
  <1> DEFINE v == [w EXCEPT !.next = n, !.last = l]
  <1>1. v \in Row
    BY DEF Row
  <1>2. v.exists = w.exists /\ v.status = w.status /\ v.ends = w.ends /\ v.used = w.used
    BY DEF Row
  <1> HIDE DEF v
  <1>3. ResetOf(w, v)
    BY <1>1, <1>2, RowFields DEF ResetOf
  <1> QED
    BY <1>3 DEF v

\* maybeResetUserSubscriptionWithPlanTx leaves identity, status and end alone,
\* and never raises the used amount.
LEMMA MaybeResetRow ==
  ASSUME NEW w \in Row, NEW t \in Nat
  PROVE  ResetOf(w, MaybeReset(w, t))
  <1>1. PICK base \in Nat : base = IF w.last <= 0 THEN Start ELSE w.last
    BY RowFields DEF Start
  <1> DEFINE passed == Passed(base, w.ends, t) \ {base}
             latest == CHOOSE b \in passed : \A c \in passed : c <= b
  <1>2. MaybeReset(w, t) =
          IF (w.next > 0 /\ w.next > t) \/ ResetEvery = 0 THEN w
          ELSE IF passed # {}
          THEN [w EXCEPT !.used = 0, !.last = latest, !.next = NextReset(latest, w.ends)]
          ELSE IF w.next = 0 /\ NextReset(base, w.ends) > 0
          THEN [w EXCEPT !.next = NextReset(base, w.ends), !.last = base]
          ELSE w
    BY <1>1 DEF MaybeReset
  <1>3. passed \in SUBSET (0..t)
    BY DEF Passed
  <1>4. passed # {} => latest \in passed
    <2> HIDE DEF passed
    <2>1. passed # {} => \E n \in passed : \A k \in passed : k <= n
      BY <1>3, LatestOf
    <2> QED
      BY <2>1
  <1>5. passed # {} => latest \in Nat
    BY <1>3, <1>4
  <1> HIDE DEF passed, latest
  <1>6. w.used \in Nat /\ w.ends \in Nat
    BY RowFields
  <1>7. ResetOf(w, w)
    BY <1>6 DEF ResetOf
  <1>8. ASSUME passed # {}
        PROVE  ResetOf(w, [w EXCEPT !.used = 0, !.last = latest, !.next = NextReset(latest, w.ends)])
    <2>1. latest \in Nat /\ 0 \in Nat /\ 0 <= w.used
      BY <1>5, <1>6, <1>8
    <2>2. NextReset(latest, w.ends) \in Nat
      BY <2>1, <1>6, NextResetType
    <2> QED
      BY <2>1, <2>2, ResetRow, Zenon
  <1>9. ResetOf(w, [w EXCEPT !.next = NextReset(base, w.ends), !.last = base])
    <2>1. NextReset(base, w.ends) \in Nat
      BY <1>6, NextResetType
    <2> QED
      BY <2>1, FilledRow, Zenon
  <1> QED
    BY <1>2, <1>7, <1>8, <1>9

-----------------------------------------------------------------------------
(* Transactions. *)

TxOK ==
    /\ DOMAIN tx = Owners
    /\ \A o \in Owners :
          /\ On(o) \subseteq Subs
          /\ tx[o] \in [rows : [On(o) -> Row], at : Nat]

\* The type invariant, part by part.
LEMMA TypeParts ==
  TypeOK <=> /\ now \in Nat /\ row \in [Subs -> Row] /\ req \in [Requests -> Request]
             /\ TxOK /\ job \in [todo : SUBSET Subs, at : Nat]
  BY DEF TypeOK, TxOK

\* The same after a step.
LEMMA TypePartsNext ==
  TypeOK' <=> /\ now' \in Nat /\ row' \in [Subs -> Row] /\ req' \in [Requests -> Request]
              /\ TxOK' /\ job' \in [todo : SUBSET Subs, at : Nat]
  BY DEF TypeOK, TxOK

\* Types of an open transaction.
LEMMA TxFields ==
  ASSUME TypeOK, NEW o \in Owners
  PROVE  /\ tx[o].at \in Nat /\ On(o) \subseteq Subs
         /\ \A i \in On(o) : i \in Subs /\ tx[o].rows[i] \in Row
  <1>1. tx[o] \in [rows : [On(o) -> Row], at : Nat] /\ On(o) \subseteq Subs
    BY DEF TypeOK
  <1> QED
    BY <1>1

\* Types of the fields of a request.
LEMMA RequestFields ==
  ASSUME TypeOK, NEW r \in Requests
  PROVE  /\ req[r] \in Request
         /\ req[r].pc \in {"idle", "pre", "held", "adjust", "done"}
         /\ req[r].sub \in Subs \cup {0}
         /\ req[r].held \in Nat /\ req[r].goal \in Nat /\ req[r].since \in Nat
         /\ req[r].adjusted \in Nat
  <1>1. req[r] \in Request
    BY DEF TypeOK
  <1> QED
    BY <1>1 DEF Request

\* What all proofs know of the transactions.
TxInv == TxOK /\ ReadWithinTotal /\ LocksProtect

\* A transaction that opens has read the rows as they are, and meets no other
\* on them if rows are locked.
LEMMA OpenTx ==
  ASSUME RowsInv, NEW o \in Owners, NEW on \in SUBSET Subs, NEW t \in Nat,
         Open(o, on, t), row' = row
  PROVE  /\ TxInv'
         /\ On(o)' = on
         /\ \A p \in Owners : p # o => On(p)' = On(p)
  <1> USE DEF RowsInv
  <1>1. /\ DOMAIN tx = Owners /\ row \in [Subs -> Row]
        /\ \A i \in on : ~Locked(i)
        /\ tx' = [tx EXCEPT ![o] = [rows |-> [i \in on |-> row[i]], at |-> t]]
    BY DEF TypeOK, Open
  <1>2. /\ DOMAIN tx' = Owners
        /\ tx'[o] = [rows |-> [i \in on |-> row[i]], at |-> t]
        /\ \A p \in Owners : p # o => tx'[p] = tx[p]
    BY <1>1
  <1>3. On(o)' = on /\ \A i \in on : tx'[o].rows[i] = row[i]
    BY <1>2 DEF On
  <1>4. \A p \in Owners : p # o => On(p)' = On(p)
    BY <1>2 DEF On
  <1>5. TxOK'
    <2>1. tx'[o] \in [rows : [on -> Row], at : Nat]
      BY <1>1, <1>2
    <2>2. \A p \in Owners : p # o => On(p)' \subseteq Subs /\ tx'[p] \in [rows : [On(p)' -> Row], at : Nat]
      BY <1>2, <1>4 DEF TypeOK
    <2> QED
      BY <1>2, <1>3, <2>1, <2>2 DEF TxOK
  <1>6. ReadWithinTotal'
    <2> SUFFICES ASSUME NEW p \in Owners, NEW i \in On(p)', Total > 0
                 PROVE  tx'[p].rows[i].used <= Total
      BY DEF ReadWithinTotal
    <2>1. CASE p = o
      BY <2>1, <1>3 DEF UsedWithinTotal
    <2>2. CASE p # o
      BY <2>2, <1>2, <1>4 DEF ReadWithinTotal
    <2> QED
      BY <2>1, <2>2
  <1>7. LocksProtect'
    <2> SUFFICES ASSUME RowLocks
                 PROVE  /\ \A p, q \in Owners : p # q => On(p)' \cap On(q)' = {}
                        /\ \A p \in Owners : \A i \in On(p)' : tx'[p].rows[i] = row'[i]
      BY DEF LocksProtect
    <2>1. \A p \in Owners : on \cap On(p) = {}
      BY <1>1 DEF Locked
    <2>2. \A p, q \in Owners : p # q => On(p)' \cap On(q)' = {}
      BY <2>1, <1>3, <1>4 DEF LocksProtect
    <2>3. \A p \in Owners : \A i \in On(p)' : tx'[p].rows[i] = row'[i]
      BY <1>2, <1>3, <1>4 DEF LocksProtect
    <2> QED
      BY <2>2, <2>3
  <1> QED
    BY <1>3, <1>4, <1>5, <1>6, <1>7 DEF TxInv

\* o commits: it has saved rows it had read at most.
LEMMA CloseTx ==
  ASSUME RowsInv, NEW o \in Owners, Close(o), \A i \in Subs \ On(o) : row'[i] = row[i]
  PROVE  /\ TxInv'
         /\ On(o)' = {}
         /\ \A p \in Owners : p # o => On(p)' = On(p)
  <1> USE DEF RowsInv
  <1>1. DOMAIN tx = Owners /\ tx' = [tx EXCEPT ![o] = Closed]
    BY DEF TypeOK, Close
  <1>2. /\ DOMAIN tx' = Owners /\ tx'[o] = Closed
        /\ \A p \in Owners : p # o => tx'[p] = tx[p]
    BY <1>1
  <1>3. On(o)' = {}
    BY <1>2 DEF On, Closed, NoRows
  <1>4. \A p \in Owners : p # o => On(p)' = On(p)
    BY <1>2 DEF On
  <1>5. TxOK'
    <2>1. tx'[o] \in [rows : [{} -> Row], at : Nat]
      BY <1>2 DEF Closed, NoRows
    <2>2. \A p \in Owners : p # o => On(p)' \subseteq Subs /\ tx'[p] \in [rows : [On(p)' -> Row], at : Nat]
      BY <1>2, <1>4 DEF TypeOK
    <2> QED
      BY <1>2, <1>3, <2>1, <2>2 DEF TxOK
  <1>6. ReadWithinTotal'
    BY <1>2, <1>3, <1>4 DEF ReadWithinTotal
  <1>7. LocksProtect'
    <2> SUFFICES ASSUME RowLocks
                 PROVE  /\ \A p, q \in Owners : p # q => On(p)' \cap On(q)' = {}
                        /\ \A p \in Owners : \A i \in On(p)' : tx'[p].rows[i] = row'[i]
      BY DEF LocksProtect
    <2>1. \A p, q \in Owners : p # q => On(p)' \cap On(q)' = {}
      BY <1>3, <1>4 DEF LocksProtect
    <2>2. ASSUME NEW p \in Owners, NEW i \in On(p)' PROVE tx'[p].rows[i] = row'[i]
      <3>1. p # o /\ i \in On(p) /\ tx'[p] = tx[p]
        BY <2>2, <1>2, <1>3, <1>4
      <3>2. i \in Subs \ On(o)
        BY <3>1, TxFields DEF LocksProtect
      <3> QED
        BY <3>1, <3>2 DEF LocksProtect
    <2> QED
      BY <2>1, <2>2
  <1> QED
    BY <1>3, <1>4, <1>5, <1>6, <1>7 DEF TxInv

\* A single statement on rows no transaction holds.
LEMMA StatementTx ==
  ASSUME RowsInv, tx' = tx, \A i \in Subs : Locked(i) => row'[i] = row[i]
  PROVE  TxInv' /\ \A o \in Owners : On(o)' = On(o)
  <1> USE DEF RowsInv
  <1>1. \A o \in Owners : On(o)' = On(o) /\ On(o) \subseteq Subs
    BY TxFields DEF On
  <1>2. TxOK' /\ ReadWithinTotal'
    BY <1>1 DEF TypeOK, TxOK, ReadWithinTotal
  <1>3. LocksProtect'
    <2> SUFFICES ASSUME RowLocks
                 PROVE  /\ \A p, q \in Owners : p # q => On(p)' \cap On(q)' = {}
                        /\ \A p \in Owners : \A i \in On(p)' : tx'[p].rows[i] = row'[i]
      BY DEF LocksProtect
    <2>1. \A p, q \in Owners : p # q => On(p)' \cap On(q)' = {}
      BY <1>1 DEF LocksProtect
    <2>2. ASSUME NEW p \in Owners, NEW i \in On(p) PROVE tx'[p].rows[i] = row'[i]
      <3>1. Locked(i) /\ i \in Subs
        BY <1>1 DEF Locked
      <3> QED
        BY <3>1 DEF LocksProtect
    <2> QED
      BY <1>1, <2>1, <2>2
  <1> QED
    BY <1>1, <1>2, <1>3 DEF TxInv

-----------------------------------------------------------------------------
(* The steps. *)

\* No row that was over is live afterwards.
NoRevival == \A i \in Subs, t \in Nat : Live(row[i], t)' => Live(row[i], t)

\* Opening a pre-consume preserves the invariant and changes no row.
LEMMA BeginPreConsumeKeeps ==
  ASSUME RowsInv, NEW r \in Requests, NEW a \in Amounts, NEW t \in Start..now, BeginPreConsume(r, a, t)
  PROVE  RowsInv' /\ row' = row /\ now' = now
  <1> USE DEF RowsInv
  <1>1. /\ req[r].pc = "idle" /\ req' = [req EXCEPT ![r].pc = "pre", ![r].goal = a]
        /\ now' = now /\ row' = row /\ job' = job
    BY DEF BeginPreConsume
  <1>2. r \in Owners /\ t \in Nat /\ a \in Nat
    BY Constants DEF Start, TypeOK
  <1>3. PICK on \in SUBSET Subs : Open(r, on, t)
    BY DEF BeginPreConsume, LiveAt
  <1>4. /\ TxInv' /\ On(r)' = on
        /\ \A p \in Owners : p # r => On(p)' = On(p)
    BY <1>1, <1>2, <1>3, OpenTx
  <1> DEFINE q == [req[r] EXCEPT !.pc = "pre", !.goal = a]
  <1>5. q \in Request /\ q.pc = "pre"
    BY <1>2, RequestFields DEF Request
  <1>6. req' = [req EXCEPT ![r] = q]
    BY <1>1 DEF TypeOK
  <1> HIDE DEF q
  <1>7. req' \in [Requests -> Request] /\ req'[r].pc = "pre" /\ \A s \in Requests : s # r => req'[s] = req[s]
    BY <1>5, <1>6 DEF TypeOK
  <1>8. TypeOK'
    BY <1>1, <1>4, <1>7, TypeParts, TypePartsNext DEF TxInv
  <1>9. RequestShape'
    BY <1>4, <1>7, Constants DEF RequestShape
  <1> QED
    BY <1>1, <1>4, <1>8, <1>9 DEF TxInv, UsedWithinTotal

\* A row that a reset left, with an amount added that it still covers.
LEMMA ChargedRow ==
  ASSUME NEW w \in Row, NEW v, ResetOf(w, v), NEW a \in Nat, Covers(v, a)
  PROVE  /\ [v EXCEPT !.used = @ + a] \in Row
         /\ [v EXCEPT !.used = @ + a].exists = w.exists
         /\ [v EXCEPT !.used = @ + a].status = w.status
         /\ [v EXCEPT !.used = @ + a].ends = w.ends
         /\ Total > 0 => [v EXCEPT !.used = @ + a].used <= Total
  <1>1. v \in Row /\ v.used \in Nat /\ Total \in Nat
    BY RowFields, Constants DEF ResetOf
  <1>2. PICK n \in Nat : n = v.used + a
    BY <1>1
  <1> DEFINE u == [v EXCEPT !.used = n]
  <1>3. u \in Row /\ u.exists = v.exists /\ u.status = v.status /\ u.ends = v.ends /\ u.used = n
    BY <1>1 DEF Row
  <1>4. u = [v EXCEPT !.used = @ + a]
    BY <1>2
  <1> HIDE DEF u
  <1>5. Total > 0 => n <= Total
    BY <1>1, <1>2 DEF Covers
  <1> QED
    BY <1>3, <1>4, <1>5 DEF ResetOf

\* A row that a transaction has read, reset if it is due, stays within the
\* total.
LEMMA FreshRow ==
  ASSUME RowsInv, NEW o \in Owners, NEW i \in On(o)
  PROVE  /\ i \in Subs /\ tx[o].rows[i] \in Row /\ ResetOf(tx[o].rows[i], Fresh(o, i))
         /\ Fresh(o, i).last \in Nat
         /\ Total > 0 => Fresh(o, i).used <= Total
  <1> USE DEF RowsInv
  <1>1. i \in Subs /\ tx[o].rows[i] \in Row /\ tx[o].at \in Nat
    BY TxFields
  <1>2. PICK w \in Row : w = tx[o].rows[i]
    BY <1>1
  <1>3. PICK t \in Nat : t = tx[o].at
    BY <1>1
  <1>4. Fresh(o, i) = MaybeReset(w, t)
    BY <1>2, <1>3 DEF Fresh
  <1>5. PICK v : v = MaybeReset(w, t)
    OBVIOUS
  <1>6. ResetOf(w, v)
    BY <1>5, MaybeResetRow
  <1>7. v \in Row /\ v.used <= w.used
    BY <1>6 DEF ResetOf
  <1>8. v.last \in Nat /\ v.used \in Nat /\ w.used \in Nat
    BY <1>7, RowFields
  <1>9. Total > 0 => w.used <= Total
    BY <1>2 DEF ReadWithinTotal
  <1>10. Total > 0 => v.used <= Total
    BY <1>7, <1>8, <1>9, Constants
  <1> QED
    BY <1>1, <1>2, <1>4, <1>5, <1>6, <1>8, <1>10

\* The first candidate that covers the amount is one.
LEMMA ChosenCovers ==
  ASSUME RowsInv, NEW o \in Owners, NEW a \in Nat, Chosen(o, a) # 0
  PROVE  /\ Chosen(o, a) \in On(o) /\ Chosen(o, a) \in Candidates(o)
         /\ Covers(Fresh(o, Chosen(o, a)), a)
  <1> DEFINE fit == {i \in Candidates(o) : Covers(Fresh(o, i), a)}
  <1>1. fit # {} /\ Chosen(o, a) = CHOOSE i \in fit : \A j \in fit : i <= j
    BY DEF Chosen
  <1>2. fit \in SUBSET Nat
    <2>1. \A i \in On(o) : i \in Nat
      BY TxFields, Constants DEF RowsInv
    <2> QED
      BY <2>1 DEF Candidates
  <1>3. \E i \in fit : \A j \in fit : i <= j
    BY <1>1, <1>2, LeastOf
  <1>4. Chosen(o, a) \in fit
    BY <1>1, <1>3
  <1> QED
    BY <1>4 DEF Candidates

\* A pre-consume preserves the invariant; with row locks it revives nothing.
LEMMA CommitPreConsumeKeeps ==
  ASSUME RowsInv, NEW r \in Requests, CommitPreConsume(r)
  PROVE  RowsInv' /\ now' = now /\ (RowLocks => NoRevival)
  <1> USE DEF RowsInv
  <1>1. r \in Owners /\ req[r].pc = "pre" /\ Close(r) /\ now' = now /\ job' = job
    BY Constants DEF CommitPreConsume
  <1>2. PICK a \in Nat : a = req[r].goal
    BY RequestFields
  <1>3. PICK c : c = Chosen(r, a)
    OBVIOUS
  <1>4. CASE c = 0
    <2>1. row' = row /\ req' = [req EXCEPT ![r].pc = "done"]
      BY <1>2, <1>3, <1>4 DEF CommitPreConsume
    <2>2. TxInv' /\ On(r)' = {} /\ \A p \in Owners : p # r => On(p)' = On(p)
      BY <1>1, <2>1, CloseTx
    <2> DEFINE q == [req[r] EXCEPT !.pc = "done"]
    <2>3. q \in Request /\ q.pc = "done"
      BY RequestFields DEF Request
    <2>4. req' = [req EXCEPT ![r] = q]
      BY <2>1 DEF TypeOK
    <2> HIDE DEF q
    <2>5. req' \in [Requests -> Request] /\ req'[r].pc = "done" /\ \A s \in Requests : s # r => req'[s] = req[s]
      BY <2>3, <2>4 DEF TypeOK
    <2>6. TypeOK'
      BY <1>1, <2>1, <2>2, <2>5, TypeParts, TypePartsNext DEF TxInv
    <2>7. RequestShape'
      BY <2>2, <2>5, Constants DEF RequestShape
    <2> QED
      BY <1>1, <2>1, <2>2, <2>6, <2>7 DEF TxInv, UsedWithinTotal, NoRevival, Live
  <1>5. CASE c # 0
    <2>1. /\ row' = [i \in Subs |->
                  IF i = c THEN [Fresh(r, c) EXCEPT !.used = @ + a]
                  ELSE IF i \in Candidates(r) /\ i < c /\ Fresh(r, i) # tx[r].rows[i]
                       THEN Fresh(r, i)
                  ELSE row[i]]
          /\ req' = [req EXCEPT ![r] = [@ EXCEPT !.pc = "held", !.sub = c, !.held = a,
                                                 !.since = Fresh(r, c).last]]
      BY <1>2, <1>3, <1>5 DEF CommitPreConsume
    <2>2. c \in On(r) /\ Covers(Fresh(r, c), a)
      BY <1>1, <1>3, <1>5, ChosenCovers
    <2>3. /\ c \in Subs /\ tx[r].rows[c] \in Row /\ ResetOf(tx[r].rows[c], Fresh(r, c))
          /\ Fresh(r, c).last \in Nat
      BY <1>1, <2>2, FreshRow
    <2>4. \A i \in Subs \ On(r) : row'[i] = row[i]
      BY <2>1, <2>2 DEF Candidates
    <2>5. ASSUME NEW i \in On(r)
          PROVE  /\ i \in Subs /\ row'[i] \in Row
                 /\ Total > 0 => row'[i].used <= Total
                 /\ row'[i] = row[i] \/ /\ row'[i].exists = tx[r].rows[i].exists
                                        /\ row'[i].status = tx[r].rows[i].status
                                        /\ row'[i].ends = tx[r].rows[i].ends
      <3>1. /\ i \in Subs /\ ResetOf(tx[r].rows[i], Fresh(r, i))
            /\ Total > 0 => Fresh(r, i).used <= Total
        BY <1>1, <2>5, FreshRow
      <3>2. CASE i = c
        <4>1. PICK v : v = Fresh(r, c)
          OBVIOUS
        <4>2. PICK w \in Row : w = tx[r].rows[c]
          BY <2>3
        <4>3. row'[i] = [v EXCEPT !.used = @ + a]
          BY <2>1, <3>1, <3>2, <4>1
        <4>4. ResetOf(w, v) /\ Covers(v, a)
          BY <2>2, <2>3, <4>1, <4>2
        <4>5. /\ row'[i] \in Row
              /\ row'[i].exists = w.exists /\ row'[i].status = w.status /\ row'[i].ends = w.ends
              /\ Total > 0 => row'[i].used <= Total
          BY <4>3, <4>4, ChargedRow
        <4> QED
          BY <3>1, <3>2, <4>2, <4>5
      <3>3. CASE i # c
        <4>1. row'[i] = Fresh(r, i) \/ row'[i] = row[i]
          BY <2>1, <3>1, <3>3
        <4>2. row[i] \in Row /\ (Total > 0 => row[i].used <= Total)
          BY <3>1 DEF TypeOK, UsedWithinTotal
        <4> QED
          BY <3>1, <4>1, <4>2 DEF ResetOf
      <3> QED
        BY <3>2, <3>3
    <2>6. TxInv' /\ On(r)' = {} /\ \A p \in Owners : p # r => On(p)' = On(p)
      BY <1>1, <2>4, CloseTx
    <2>7. row' \in [Subs -> Row]
      <3>1. \A i \in Subs : row'[i] \in Row
        BY <2>4, <2>5 DEF TypeOK
      <3>2. DOMAIN row' = Subs /\ row' = [i \in Subs |-> row'[i]]
        BY <2>1
      <3> QED
        BY <3>1, <3>2
    <2>8. UsedWithinTotal'
      BY <2>4, <2>5 DEF UsedWithinTotal
    <2>9. PICK l \in Nat : l = Fresh(r, c).last
      BY <2>3
    <2> DEFINE q == [req[r] EXCEPT !.pc = "held", !.sub = c, !.held = a, !.since = l]
    <2>10. q \in Request /\ q.pc = "held" /\ q.sub = c
      BY <2>3, RequestFields DEF Request
    <2>11. req' = [req EXCEPT ![r] = q]
      BY <2>1, <2>9 DEF TypeOK
    <2> HIDE DEF q
    <2>12. /\ req' \in [Requests -> Request] /\ req'[r].pc = "held" /\ req'[r].sub = c
           /\ \A s \in Requests : s # r => req'[s] = req[s]
      BY <2>10, <2>11 DEF TypeOK
    <2>13. TypeOK'
      BY <1>1, <2>6, <2>7, <2>12, TypeParts, TypePartsNext DEF TxInv
    <2>14. RequestShape'
      BY <2>3, <2>6, <2>12, Constants DEF RequestShape
    <2>15. ASSUME RowLocks PROVE NoRevival
      <3> SUFFICES ASSUME NEW i \in Subs, NEW t \in Nat, Live(row[i], t)' PROVE Live(row[i], t)
        BY DEF NoRevival
      <3>1. CASE i \in On(r)
        <4>1. tx[r].rows[i] = row[i]
          BY <1>1, <2>15, <3>1 DEF LocksProtect
        <4> QED
          BY <2>5, <3>1, <4>1 DEF Live
      <3>2. CASE i \notin On(r)
        BY <2>4, <3>2 DEF Live
      <3> QED
        BY <3>1, <3>2
    <2> QED
      BY <1>1, <2>6, <2>8, <2>13, <2>14, <2>15 DEF TxInv
  <1> QED
    BY <1>4, <1>5

\* Opening a settlement or refund preserves the invariant.
LEMMA BeginAdjustKeeps ==
  ASSUME RowsInv, NEW r \in Requests, NEW g \in Amounts \cup {0}, BeginAdjust(r, g)
  PROVE  RowsInv' /\ row' = row /\ now' = now
  <1> USE DEF RowsInv
  <1>1. /\ req[r].pc = "held" /\ req' = [req EXCEPT ![r].pc = "adjust", ![r].goal = g]
        /\ now' = now /\ row' = row /\ job' = job
    BY DEF BeginAdjust
  <1>2. r \in Owners /\ g \in Nat /\ now \in Nat
    BY Constants DEF TypeOK
  <1>3. PICK i \in Subs : i = req[r].sub
    BY <1>1 DEF RequestShape
  <1>4. PICK t \in Nat : t = now
    BY <1>2
  <1>5. Open(r, {i}, t)
    BY <1>3, <1>4 DEF BeginAdjust
  <1>6. /\ TxInv' /\ On(r)' = {i}
        /\ \A p \in Owners : p # r => On(p)' = On(p)
    BY <1>1, <1>2, <1>5, OpenTx
  <1> DEFINE q == [req[r] EXCEPT !.pc = "adjust", !.goal = g]
  <1>7. q \in Request /\ q.pc = "adjust" /\ q.sub = i
    BY <1>2, <1>3, RequestFields DEF Request
  <1>8. req' = [req EXCEPT ![r] = q]
    BY <1>1 DEF TypeOK
  <1> HIDE DEF q
  <1>9. /\ req' \in [Requests -> Request] /\ req'[r].pc = "adjust" /\ req'[r].sub = i
        /\ \A s \in Requests : s # r => req'[s] = req[s]
    BY <1>7, <1>8 DEF TypeOK
  <1>10. TypeOK'
    BY <1>1, <1>6, <1>9, TypeParts, TypePartsNext DEF TxInv
  <1>11. RequestShape'
    BY <1>6, <1>9, Constants DEF RequestShape
  <1> QED
    BY <1>1, <1>6, <1>10, <1>11 DEF TxInv, UsedWithinTotal

\* A settlement or refund preserves the invariant; with row locks it revives
\* nothing.
LEMMA CommitAdjustKeeps ==
  ASSUME RowsInv, NEW r \in Requests, CommitAdjust(r)
  PROVE  RowsInv' /\ now' = now /\ (RowLocks => NoRevival)
  <1> USE DEF RowsInv
  <1>1. r \in Owners /\ req[r].pc = "adjust" /\ Close(r) /\ now' = now /\ job' = job
    BY Constants DEF CommitAdjust
  <1>2. PICK i \in Subs : i = req[r].sub /\ On(r) = {i}
    BY <1>1 DEF RequestShape
  <1>3. PICK w \in Row : w = tx[r].rows[i]
    BY <1>1, <1>2, TxFields
  <1>4. /\ w.used \in Nat /\ w.last \in Nat /\ req[r].goal \in Nat /\ req[r].held \in Nat
    BY RowFields, RequestFields
  <1>5. PICK n \in Nat : n = IF w.used + req[r].goal - req[r].held < 0 THEN 0
                             ELSE w.used + req[r].goal - req[r].held
    BY <1>4
  <1>6. \/ /\ Total > 0 /\ n > Total
           /\ req' = [req EXCEPT ![r].pc = "done"] /\ row' = row
        \/ /\ ~(Total > 0 /\ n > Total)
           /\ row' = [row EXCEPT ![i] = [w EXCEPT !.used = n]]
           /\ req' = [req EXCEPT ![r] = [@ EXCEPT !.pc = "done", !.held = req[r].goal,
                                                  !.adjusted = w.last]]
    BY <1>2, <1>3, <1>5 DEF CommitAdjust
  <1> DEFINE v == [w EXCEPT !.used = n]
  <1>7. /\ v \in Row /\ v.exists = w.exists /\ v.status = w.status /\ v.ends = w.ends
        /\ v.used = n
    BY DEF Row
  <1>8. row' = row \/ (row' = [row EXCEPT ![i] = v] /\ ~(Total > 0 /\ n > Total))
    BY <1>6
  <1> HIDE DEF v
  <1>9. row' \in [Subs -> Row] /\ \A j \in Subs \ On(r) : row'[j] = row[j]
    BY <1>2, <1>7, <1>8 DEF TypeOK
  <1>10. UsedWithinTotal'
    BY <1>7, <1>8, Constants DEF UsedWithinTotal, TypeOK
  <1>11. TxInv' /\ On(r)' = {} /\ \A p \in Owners : p # r => On(p)' = On(p)
    BY <1>1, <1>9, CloseTx
  <1>12. /\ req' \in [Requests -> Request] /\ req'[r].pc = "done"
         /\ \A s \in Requests : s # r => req'[s] = req[s]
    <2>1. CASE req' = [req EXCEPT ![r].pc = "done"]
      <3> DEFINE q == [req[r] EXCEPT !.pc = "done"]
      <3>1. q \in Request /\ q.pc = "done"
        BY RequestFields DEF Request
      <3>2. req' = [req EXCEPT ![r] = q]
        BY <2>1 DEF TypeOK
      <3> HIDE DEF q
      <3> QED
        BY <3>1, <3>2 DEF TypeOK
    <2>2. CASE req' = [req EXCEPT ![r] = [@ EXCEPT !.pc = "done", !.held = req[r].goal,
                                                   !.adjusted = w.last]]
      <3>1. PICK g \in Nat : g = req[r].goal
        BY <1>4
      <3>2. PICK l \in Nat : l = w.last
        BY <1>4
      <3> DEFINE q == [req[r] EXCEPT !.pc = "done", !.held = g, !.adjusted = l]
      <3>3. q \in Request /\ q.pc = "done"
        BY RequestFields DEF Request
      <3>4. req' = [req EXCEPT ![r] = q]
        BY <2>2, <3>1, <3>2 DEF TypeOK
      <3> HIDE DEF q
      <3> QED
        BY <3>3, <3>4 DEF TypeOK
    <2> QED
      BY <1>6, <2>1, <2>2
  <1>13. TypeOK'
    BY <1>1, <1>9, <1>11, <1>12, TypeParts, TypePartsNext DEF TxInv
  <1>14. RequestShape'
    BY <1>11, <1>12, Constants DEF RequestShape
  <1>15. ASSUME RowLocks PROVE NoRevival
    <2>1. w = row[i]
      BY <1>1, <1>2, <1>3, <1>15 DEF LocksProtect
    <2>2. \A j \in Subs : row'[j] = row[j] \/ /\ row'[j].exists = row[j].exists
                                              /\ row'[j].status = row[j].status
                                              /\ row'[j].ends = row[j].ends
      BY <1>7, <1>8, <2>1 DEF TypeOK
    <2> QED
      BY <2>2 DEF NoRevival, Live
  <1> QED
    BY <1>1, <1>10, <1>11, <1>13, <1>14, <1>15 DEF TxInv

\* A request that keeps its hold preserves the invariant.
LEMMA KeepKeeps ==
  ASSUME RowsInv, NEW r \in Requests, Keep(r)
  PROVE  RowsInv' /\ row' = row /\ now' = now
  <1> USE DEF RowsInv
  <1>1. /\ req[r].pc = "held" /\ req' = [req EXCEPT ![r].pc = "done"]
        /\ UNCHANGED <<now, row, tx, job>>
    BY DEF Keep
  <1>2. TxInv' /\ \A o \in Owners : On(o)' = On(o)
    BY <1>1, StatementTx
  <1> DEFINE q == [req[r] EXCEPT !.pc = "done"]
  <1>3. q \in Request /\ q.pc = "done"
    BY RequestFields DEF Request
  <1>4. req' = [req EXCEPT ![r] = q]
    BY <1>1 DEF TypeOK
  <1> HIDE DEF q
  <1>5. /\ req' \in [Requests -> Request] /\ req'[r].pc = "done"
        /\ \A s \in Requests : s # r => req'[s] = req[s]
    BY <1>3, <1>4 DEF TypeOK
  <1>6. TypeOK'
    BY <1>1, <1>2, <1>5, TypeParts, TypePartsNext DEF TxInv
  <1>7. RequestShape'
    BY <1>1, <1>2, <1>5, Constants DEF RequestShape
  <1> QED
    BY <1>1, <1>2, <1>6, <1>7 DEF TxInv, UsedWithinTotal

\* Listing the subscriptions to reset preserves the invariant.
LEMMA ListDueKeeps ==
  ASSUME RowsInv, ListDue
  PROVE  RowsInv' /\ row' = row /\ now' = now
  <1> USE DEF RowsInv
  <1>1. PICK due \in SUBSET Subs : job' = [todo |-> due, at |-> now]
    BY DEF ListDue
  <1>2. UNCHANGED <<now, row, req, tx>>
    BY DEF ListDue
  <1>3. job' \in [todo : SUBSET Subs, at : Nat]
    BY <1>1 DEF TypeOK
  <1>4. TxInv' /\ \A o \in Owners : On(o)' = On(o)
    BY <1>2, StatementTx
  <1>5. TypeOK'
    BY <1>2, <1>3, <1>4, TypeParts, TypePartsNext DEF TxInv
  <1> QED
    BY <1>2, <1>4, <1>5, Constants DEF TxInv, UsedWithinTotal, RequestShape

\* Opening a reset preserves the invariant.
LEMMA BeginResetKeeps ==
  ASSUME RowsInv, NEW i \in Subs, BeginReset(i)
  PROVE  RowsInv' /\ row' = row /\ now' = now
  <1> USE DEF RowsInv
  <1>1. /\ job' = [job EXCEPT !.todo = @ \ {i}] /\ UNCHANGED <<now, row, req>>
        /\ Open("reset", {i}, job.at) \/ tx' = tx
    BY DEF BeginReset
  <1>2. job \in [todo : SUBSET Subs, at : Nat]
    BY DEF TypeOK
  <1>3. job' \in [todo : SUBSET Subs, at : Nat]
    BY <1>1, <1>2
  <1>4. PICK t \in Nat : t = job.at
    BY <1>2
  <1>5. TxInv' /\ \A r \in Requests : On(r)' = On(r)
    <2>1. CASE Open("reset", {i}, job.at)
      <3>1. Open("reset", {i}, t) /\ "reset" \in Owners /\ {i} \in SUBSET Subs
        BY <2>1, <1>4, Constants
      <3> QED
        BY <3>1, <1>1, OpenTx, Constants
    <2>2. CASE tx' = tx
      BY <2>2, <1>1, StatementTx, Constants
    <2> QED
      BY <1>1, <2>1, <2>2
  <1>6. TypeOK'
    BY <1>1, <1>3, <1>5, TypeParts, TypePartsNext DEF TxInv
  <1> QED
    BY <1>1, <1>5, <1>6 DEF TxInv, UsedWithinTotal, RequestShape

\* A reset preserves the invariant; with row locks it revives nothing.
LEMMA CommitResetKeeps ==
  ASSUME RowsInv, NEW i \in Subs, CommitReset(i)
  PROVE  RowsInv' /\ now' = now /\ (RowLocks => NoRevival)
  <1> USE DEF RowsInv
  <1>1. /\ i \in On("reset") /\ Close("reset") /\ UNCHANGED <<now, req, job>>
        /\ "reset" \in Owners
    BY Constants DEF CommitReset
  <1>2. PICK w \in Row : w = tx["reset"].rows[i]
    BY <1>1, TxFields
  <1>3. PICK v : v = Fresh("reset", i)
    OBVIOUS
  <1>4. ResetOf(w, v) /\ (Total > 0 => v.used <= Total)
    BY <1>1, <1>2, <1>3, FreshRow
  <1>5. row' = row \/ row' = [row EXCEPT ![i] = v]
    <2>1. row' = [row EXCEPT ![i] = IF v # w THEN v ELSE @]
      BY <1>2, <1>3 DEF CommitReset, Fresh
    <2> QED
      BY <2>1 DEF TypeOK
  <1>6. v \in Row /\ v.exists = w.exists /\ v.status = w.status /\ v.ends = w.ends
    BY <1>4 DEF ResetOf
  <1>7. row' \in [Subs -> Row] /\ UsedWithinTotal' /\ \A j \in Subs \ On("reset") : row'[j] = row[j]
    BY <1>1, <1>4, <1>5, <1>6 DEF TypeOK, UsedWithinTotal
  <1>8. TxInv' /\ \A p \in Owners : p # "reset" => On(p)' = On(p)
    BY <1>1, <1>7, CloseTx
  <1>9. TypeOK'
    BY <1>1, <1>7, <1>8, TypeParts, TypePartsNext DEF TxInv
  <1>10. RequestShape'
    BY <1>1, <1>8, Constants DEF RequestShape
  <1>11. ASSUME RowLocks PROVE NoRevival
    <2>1. w = row[i]
      BY <1>1, <1>2, <1>11 DEF LocksProtect
    <2>2. \A j \in Subs : row'[j] = row[j] \/ /\ row'[j].exists = row[j].exists
                                              /\ row'[j].status = row[j].status
                                              /\ row'[j].ends = row[j].ends
      BY <1>5, <1>6, <2>1 DEF TypeOK
    <2> QED
      BY <2>2 DEF NoRevival, Live
  <1> QED
    BY <1>1, <1>7, <1>8, <1>9, <1>10, <1>11 DEF TxInv

\* A statement on the columns status, end_time or on the whole row.
LEMMA StatementKeeps ==
  ASSUME RowsInv, UNCHANGED <<now, req, tx, job>>, row' \in [Subs -> Row],
         \A i \in Subs : /\ Locked(i) => row'[i] = row[i]
                         /\ row'[i].used = row[i].used
                         /\ row'[i].exists /\ row'[i].status = "active" =>
                               row[i].exists /\ row[i].status = "active" /\ row'[i].ends = row[i].ends
  PROVE  RowsInv' /\ now' = now /\ NoRevival
  <1> USE DEF RowsInv
  <1>1. TxInv' /\ \A o \in Owners : On(o)' = On(o)
    BY StatementTx
  <1>2. TypeOK'
    BY <1>1, TypeParts, TypePartsNext DEF TxInv
  <1>3. RequestShape'
    BY <1>1, Constants DEF RequestShape
  <1>4. UsedWithinTotal'
    BY DEF UsedWithinTotal
  <1>5. NoRevival
    BY DEF NoRevival, Live
  <1> QED
    BY <1>1, <1>2, <1>3, <1>4, <1>5 DEF TxInv

\* Expiry is one statement: it preserves the invariant and revives nothing.
LEMMA ExpireKeeps ==
  ASSUME RowsInv, NEW t \in Start..now, Expire(t)
  PROVE  RowsInv' /\ now' = now /\ NoRevival
  <1> USE DEF RowsInv
  <1>1. PICK due \in SUBSET Subs :
           /\ \A i \in due : ~Locked(i)
           /\ row' = [i \in Subs |-> IF i \in due THEN [row[i] EXCEPT !.status = "expired"] ELSE row[i]]
    BY DEF Expire
  <1>2. UNCHANGED <<now, req, tx, job>>
    BY DEF Expire
  <1>3. ASSUME NEW i \in Subs
        PROVE  /\ row'[i] \in Row /\ row'[i].used = row[i].used
               /\ Locked(i) => row'[i] = row[i]
               /\ row'[i] = row[i] \/ row'[i].status = "expired"
    <2>1. row[i] \in Row
      BY DEF TypeOK
    <2> DEFINE v == [row[i] EXCEPT !.status = "expired"]
    <2>2. v \in Row /\ v.used = row[i].used /\ v.status = "expired"
      BY <2>1 DEF Row, Statuses
    <2>3. row'[i] = IF i \in due THEN v ELSE row[i]
      BY <1>1
    <2> HIDE DEF v
    <2> QED
      BY <1>1, <2>1, <2>2, <2>3
  <1>4. row' \in [Subs -> Row]
    <2>1. DOMAIN row' = Subs /\ row' = [i \in Subs |-> row'[i]]
      BY <1>1
    <2> QED
      BY <1>3, <2>1
  <1> QED
    BY <1>2, <1>3, <1>4, StatementKeeps

\* Nor does a cancellation.
LEMMA InvalidateKeeps ==
  ASSUME RowsInv, NEW i \in Subs, Invalidate(i)
  PROVE  RowsInv' /\ now' = now /\ NoRevival
  <1> USE DEF RowsInv
  <1>1. ~Locked(i) /\ UNCHANGED <<now, req, tx, job>> /\ row[i] \in Row
    BY DEF Invalidate, TypeOK
  <1>2. PICK t \in Nat : t = now
    BY DEF TypeOK
  <1> DEFINE v == [row[i] EXCEPT !.status = "cancelled", !.ends = t]
  <1>3. v \in Row /\ v.used = row[i].used /\ v.status = "cancelled"
    BY <1>1 DEF Row, Statuses
  <1>4. row' = [row EXCEPT ![i] = v]
    BY <1>2 DEF Invalidate, TypeOK
  <1> HIDE DEF v
  <1>5. /\ row' \in [Subs -> Row]
        /\ \A j \in Subs : /\ Locked(j) => row'[j] = row[j]
                           /\ row'[j].used = row[j].used
                           /\ row'[j] = row[j] \/ row'[j].status = "cancelled"
    BY <1>1, <1>3, <1>4 DEF TypeOK
  <1> QED
    BY <1>1, <1>5, StatementKeeps

\* Nor does a deletion.
LEMMA DeleteKeeps ==
  ASSUME RowsInv, NEW i \in Subs, Delete(i)
  PROVE  RowsInv' /\ now' = now /\ NoRevival
  <1> USE DEF RowsInv
  <1>1. ~Locked(i) /\ UNCHANGED <<now, req, tx, job>> /\ row[i] \in Row
    BY DEF Delete, TypeOK
  <1> DEFINE v == [row[i] EXCEPT !.exists = FALSE]
  <1>2. v \in Row /\ v.used = row[i].used /\ ~v.exists
    BY <1>1 DEF Row
  <1>3. row' = [row EXCEPT ![i] = v]
    BY DEF Delete, TypeOK
  <1> HIDE DEF v
  <1>4. /\ row' \in [Subs -> Row]
        /\ \A j \in Subs : /\ Locked(j) => row'[j] = row[j]
                           /\ row'[j].used = row[j].used
                           /\ row'[j] = row[j] \/ ~row'[j].exists
    BY <1>1, <1>2, <1>3 DEF TypeOK
  <1> QED
    BY <1>1, <1>4, StatementKeeps

\* The passing of time preserves the invariant.
LEMMA TickKeeps ==
  ASSUME RowsInv, Tick
  PROVE  RowsInv' /\ row' = row /\ now' = now + 1
  <1> USE DEF RowsInv
  <1>1. now' = now + 1 /\ UNCHANGED <<row, req, tx, job>> /\ now' \in Nat
    BY DEF Tick, TypeOK
  <1>2. TxInv' /\ \A o \in Owners : On(o)' = On(o)
    BY <1>1, StatementTx
  <1>3. TypeOK'
    BY <1>1, <1>2, TypeParts, TypePartsNext DEF TxInv
  <1> QED
    BY <1>1, <1>2, <1>3, Constants DEF TxInv, UsedWithinTotal, RequestShape

\* Nothing happens, and nothing breaks.
LEMMA QuietKeeps ==
  ASSUME RowsInv, UNCHANGED vars
  PROVE  RowsInv' /\ row' = row /\ now' = now
  <1> USE DEF RowsInv
  <1>1. UNCHANGED <<now, row, req, tx, job>>
    BY DEF vars
  <1>2. TxInv' /\ \A o \in Owners : On(o)' = On(o)
    BY <1>1, StatementTx
  <1>3. TypeOK'
    BY <1>1, <1>2, TypeParts, TypePartsNext DEF TxInv
  <1> QED
    BY <1>1, <1>2, <1>3, Constants DEF TxInv, UsedWithinTotal, RequestShape

\* The invariant holds before the first request.
LEMMA InitLedger == Init => RowsInv
  <1> SUFFICES ASSUME Init PROVE RowsInv
    OBVIOUS
  <1>1. ASSUME NEW i \in Subs PROVE row[i] \in Row /\ row[i].used = 0
    <2>1. PICK n \in Nat : n = NextReset(Start, Ends[i])
      BY NextResetType, Constants DEF Start
    <2>2. PICK e \in Nat : e = Ends[i]
      BY Constants
    <2>3. PICK l \in Nat : l = IF n > 0 THEN Start ELSE 0
      BY DEF Start
    <2>4. row[i] = [exists |-> TRUE, status |-> "active", ends |-> e, used |-> 0, last |-> l, next |-> n]
      BY <2>1, <2>2, <2>3 DEF Init
    <2> QED
      BY <2>4 DEF Row, Statuses
  <1>2. row \in [Subs -> Row]
    <2>1. DOMAIN row = Subs /\ row = [i \in Subs |-> row[i]]
      BY DEF Init
    <2> QED
      BY <1>1, <2>1
  <1>3. NoRequest \in Request /\ NoRequest.pc = "idle"
    BY DEF NoRequest, Request
  <1>4. req \in [Requests -> Request] /\ \A r \in Requests : req[r].pc = "idle"
    BY <1>3 DEF Init
  <1>5. tx = [o \in Owners |-> Closed]
    BY DEF Init
  <1>6. \A o \in Owners : On(o) = {} /\ tx[o] \in [rows : [{} -> Row], at : Nat]
    BY <1>5 DEF On, Closed, NoRows
  <1>7. TypeOK
    <2>1. TxOK
      BY <1>5, <1>6 DEF TxOK
    <2>2. now \in Nat /\ job \in [todo : SUBSET Subs, at : Nat]
      BY DEF Init, Start
    <2> QED
      BY <1>2, <1>4, <2>1, <2>2, TypeParts
  <1>8. UsedWithinTotal
    BY <1>1, Constants DEF UsedWithinTotal
  <1>9. RequestShape /\ ReadWithinTotal /\ LocksProtect
    BY <1>4, <1>6, Constants DEF RequestShape, ReadWithinTotal, LocksProtect
  <1> QED
    BY <1>7, <1>8, <1>9 DEF RowsInv

\* Every step keeps the invariant, sets the clock back never, and with row
\* locks brings no row back to life.
LEMMA NextLedger ==
  ASSUME RowsInv, [Next]_vars
  PROVE  RowsInv' /\ (now' = now \/ now' = now + 1) /\ (RowLocks => NoRevival)
  <1>1. row' = row => NoRevival
    BY DEF NoRevival, Live
  <1>2. ASSUME NEW r \in Requests,
               \/ \E a \in Amounts, t \in Start..now : BeginPreConsume(r, a, t)
               \/ CommitPreConsume(r)
               \/ \E g \in Amounts \cup {0} : BeginAdjust(r, g)
               \/ CommitAdjust(r)
               \/ Keep(r)
        PROVE  RowsInv' /\ now' = now /\ (RowLocks => NoRevival)
    BY <1>1, <1>2, BeginPreConsumeKeeps, CommitPreConsumeKeeps, BeginAdjustKeeps,
       CommitAdjustKeeps, KeepKeeps
  <1>3. ASSUME NEW i \in Subs, BeginReset(i) \/ CommitReset(i) \/ Invalidate(i) \/ Delete(i)
        PROVE  RowsInv' /\ now' = now /\ (RowLocks => NoRevival)
    BY <1>1, <1>3, BeginResetKeeps, CommitResetKeeps, InvalidateKeeps, DeleteKeeps
  <1>4. CASE ListDue
    BY <1>1, <1>4, ListDueKeeps
  <1>5. ASSUME NEW t \in Start..now, Expire(t)
        PROVE  RowsInv' /\ now' = now /\ (RowLocks => NoRevival)
    BY <1>5, ExpireKeeps
  <1>6. CASE Tick
    BY <1>1, <1>6, TickKeeps
  <1>7. CASE UNCHANGED vars
    BY <1>1, <1>7, QuietKeeps
  <1> QED
    BY <1>2, <1>3, <1>4, <1>5, <1>6, <1>7 DEF Next, Finished

-----------------------------------------------------------------------------
(* The rows and the requests agree. *)

\* The charge of a request against subscription i, as a function.
Charges(i) == [r \in Requests |-> Charge(i, r)]

\* The charges are amounts, and so is their sum.
LEMMA ChargesType ==
  ASSUME TypeOK, NEW i \in Subs
  PROVE  /\ Charges(i) \in [Requests -> Nat] /\ Charges(i) \in [Requests -> Int]
         /\ Charged(i) = SumFunction(Charges(i)) /\ Charged(i) \in Nat
         /\ \A r \in Requests : Charges(i)[r] = Charge(i, r) /\ Charge(i, r) \in Nat
  <1>1. \A r \in Requests : Charge(i, r) \in Nat
    BY RequestFields DEF Charge
  <1>2. Charges(i) \in [Requests -> Nat] /\ Charges(i) \in [Requests -> Int]
    BY <1>1 DEF Charges
  <1>3. Charged(i) = SumFunction(Charges(i))
    BY DEF Charged, Charges
  <1>4. SumFunction(Charges(i)) \in Nat
    BY <1>2, SumType, LedgerAssumption
  <1> QED BY <1>1, <1>2, <1>3, <1>4 DEF Charges

\* The same after a step.
LEMMA ChargesTypeNext ==
  ASSUME TypeOK', NEW i \in Subs
  PROVE  /\ Charges(i)' \in [Requests -> Nat] /\ Charges(i)' \in [Requests -> Int]
         /\ Charged(i)' = SumFunction(Charges(i)') /\ Charged(i)' \in Nat
         /\ \A r \in Requests : Charges(i)'[r] = Charge(i, r)' /\ Charge(i, r)' \in Nat
  <1>0. \A r \in Requests : req'[r] \in Request
    BY DEF TypeOK
  <1>1. \A r \in Requests : Charge(i, r)' \in Nat
    BY <1>0 DEF Charge, Request
  <1>2. Charges(i)' \in [Requests -> Nat] /\ Charges(i)' \in [Requests -> Int]
    BY <1>1 DEF Charges
  <1>3. Charged(i)' = SumFunction(Charges(i)')
    BY DEF Charged, Charges
  <1>4. SumFunction(Charges(i)') \in Nat
    BY <1>2, SumType, LedgerAssumption
  <1> QED BY <1>1, <1>2, <1>3, <1>4 DEF Charges

\* The request's charge is as it was.
SameCharge(r) ==
    /\ req'[r].sub = req[r].sub /\ req'[r].held = req[r].held
    /\ req'[r].since = req[r].since /\ req'[r].adjusted = req[r].adjusted

\* A row and its requests are left alone.
LEMMA AccountAlone ==
  ASSUME TypeOK, TypeOK', NEW i \in Subs, Account(i),
         row'[i].used = row[i].used, row'[i].last = row[i].last,
         \A r \in Requests : SameCharge(r) \/ (req[r].sub # i /\ req'[r].sub # i)
  PROVE  Account(i)'
  <1>1. \A r \in Requests : Charge(i, r)' = Charge(i, r)
    BY DEF Charge, SameCharge
  <1>2. Charges(i)' = Charges(i)
    BY <1>1 DEF Charges
  <1>3. Charged(i)' = Charged(i)
    BY <1>2, ChargesType, ChargesTypeNext
  <1>4. NoCrossing(i)' => NoCrossing(i)
    BY DEF NoCrossing, SameCharge
  <1> QED BY <1>3, <1>4 DEF Account

\* A row is reset: what was charged before does not count any more.
LEMMA AccountReset ==
  ASSUME TypeOK, TypeOK', NEW i \in Subs, row'[i].used = 0, row'[i].last > row[i].last,
         \A r \in Requests : req'[r].sub = i => req'[r].since <= row[i].last
  PROVE  Account(i)'
  <1>1. \A r \in Requests : Charge(i, r)' = 0
    <2> TAKE r \in Requests
    <2>1. req'[r].since \in Nat /\ row[i].last \in Nat /\ row'[i].last \in Nat
      BY DEF TypeOK, Request, Row
    <2>2. req'[r].sub = i => req'[r].since # row'[i].last
      BY <2>1
    <2> QED BY <2>2 DEF Charge
  <1>2. \A r \in Requests : Charges(i)'[r] = 0
    BY <1>1, ChargesTypeNext
  <1>3. SumFunction(Charges(i)') = 0
    BY <1>2, ChargesTypeNext, SumType, LedgerAssumption
  <1>4. Charged(i)' = 0
    BY <1>3, ChargesTypeNext
  <1> QED BY <1>4 DEF Account

\* A request charges a to a row.
LEMMA AccountCharged ==
  ASSUME TypeOK, TypeOK', NEW i \in Subs, Account(i), NEW r \in Requests, NEW a \in Nat,
         req[r].sub # i, req'[r].sub = i, req'[r].held = a, req'[r].since = row'[i].last,
         \A s \in Requests : s # r => SameCharge(s),
         row'[i].last = row[i].last, row'[i].used = row[i].used + a
  PROVE  Account(i)'
  <1>1. Charges(i)'[r] = a /\ Charges(i)[r] = 0
    BY ChargesType, ChargesTypeNext DEF Charge
  <1>2. \A s \in Requests : s # r => Charges(i)'[s] = Charges(i)[s]
    BY ChargesType, ChargesTypeNext DEF Charge, SameCharge
  <1>3. SumFunction(Charges(i)') = SumFunction(Charges(i)) + (Charges(i)'[r] - Charges(i)[r])
    BY <1>2, ChargesType, ChargesTypeNext, SumChange, LedgerAssumption
  <1>4. Charged(i)' = Charged(i) + a
    BY <1>1, <1>3, ChargesType, ChargesTypeNext
  <1>5. NoCrossing(i)' => NoCrossing(i)
    BY DEF NoCrossing, SameCharge
  <1> QED BY <1>4, <1>5 DEF Account

\* A request charges a to a row that it has reset.
LEMMA AccountResetCharged ==
  ASSUME TypeOK, TypeOK', NEW i \in Subs, NEW r \in Requests, NEW a \in Nat,
         req'[r].sub = i, req'[r].held = a, req'[r].since = row'[i].last,
         \A s \in Requests : s # r => (req'[s].sub = i => req'[s].since <= row[i].last),
         row'[i].last > row[i].last, row'[i].used = a
  PROVE  Account(i)'
  <1> DEFINE zero == [s \in Requests |-> 0]
  <1>1. Charges(i)'[r] = a
    BY ChargesTypeNext DEF Charge
  <1>2. ASSUME NEW s \in Requests, s # r PROVE Charges(i)'[s] = 0
    <2>1. req'[s].since \in Nat /\ row[i].last \in Nat /\ row'[i].last \in Nat
      BY DEF TypeOK, Request, Row
    <2>2. req'[s].sub = i => req'[s].since # row'[i].last
      BY <2>1, <1>2
    <2> QED BY <2>2, ChargesTypeNext DEF Charge
  <1>3. /\ zero \in [Requests -> Nat] /\ zero \in [Requests -> Int]
        /\ \A s \in Requests : zero[s] = 0
    OBVIOUS
  <1> HIDE DEF zero
  <1>4. SumFunction(zero) = 0
    BY <1>3, SumType, LedgerAssumption
  <1>5. SumFunction(Charges(i)') = SumFunction(zero) + (Charges(i)'[r] - zero[r])
    BY <1>2, <1>3, ChargesTypeNext, SumChange, LedgerAssumption
  <1>6. Charged(i)' = a
    BY <1>1, <1>3, <1>4, <1>5, ChargesTypeNext
  <1> QED BY <1>6 DEF Account

\* A request settles or refunds its charge: nothing is clamped, or the request
\* reached over a reset.
LEMMA AccountAdjusted ==
  ASSUME TypeOK, TypeOK', NEW i \in Subs, Account(i), NEW r \in Requests, NEW g \in Nat,
         req[r].sub = i, req[r].since <= row[i].last,
         req'[r].sub = i, req'[r].since = req[r].since, req'[r].held = g,
         req'[r].adjusted = row[i].last,
         \A s \in Requests : s # r => SameCharge(s),
         row'[i].last = row[i].last,
         row'[i].used = IF row[i].used + g - req[r].held < 0 THEN 0
                        ELSE row[i].used + g - req[r].held
  PROVE  Account(i)'
  <1>0. /\ req[r].since \in Nat /\ row[i].last \in Nat /\ row[i].used \in Nat
        /\ req[r].held \in Nat
    BY DEF TypeOK, Request, Row
  <1>1. CASE req[r].since < row[i].last
    <2>1. ~NoCrossing(i)'
      BY <1>0, <1>1 DEF NoCrossing
    <2> QED BY <2>1 DEF Account
  <1>2. CASE req[r].since = row[i].last
    <2>1. Charges(i)'[r] = g /\ Charges(i)[r] = req[r].held
      BY <1>2, ChargesType, ChargesTypeNext DEF Charge
    <2>2. \A s \in Requests : s # r => Charges(i)'[s] = Charges(i)[s]
      BY ChargesType, ChargesTypeNext DEF Charge, SameCharge
    <2>3. SumFunction(Charges(i)') = SumFunction(Charges(i)) + (Charges(i)'[r] - Charges(i)[r])
      BY <2>2, ChargesType, ChargesTypeNext, SumChange, LedgerAssumption
    <2>4. Charges(i)[r] <= SumFunction(Charges(i))
      BY ChargesType, SumAtLeast, LedgerAssumption
    <2>5. Charged(i)' = Charged(i) + (g - req[r].held) /\ req[r].held <= Charged(i)
      BY <2>1, <2>3, <2>4, ChargesType, ChargesTypeNext
    <2>6. NoCrossing(i)' => NoCrossing(i)
      BY <1>0, <1>2 DEF NoCrossing, SameCharge
    <2>7. Charged(i) \in Nat
      BY ChargesType
    <2>8. row[i].used = Charged(i) => row'[i].used = Charged(i)'
      BY <2>5, <2>7, <1>0
    <2> QED BY <2>6, <2>8 DEF Account
  <1> QED BY <1>0, <1>1, <1>2

\* A reset, where there is one to come, starts a new period from zero or does
\* nothing: it never only fills in reset times.
LEMMA MaybeResetPeriod ==
  ASSUME NEW w \in Row, NEW t \in Nat, NEW v, v = MaybeReset(w, t),
         w.next > 0 \/ (w.status = "active" /\ NoLateReset(w))
  PROVE  v = w \/ (v \in Row /\ v.used = 0 /\ v.last > w.last /\ NoLateReset(v))
  <1>0. w.last \in Nat /\ w.ends \in Nat /\ w.next \in Nat
    BY RowFields
  <1>1. PICK base \in Nat : base = IF w.last <= 0 THEN Start ELSE w.last
    BY <1>0 DEF Start
  <1> DEFINE passed == Passed(base, w.ends, t) \ {base}
             latest == CHOOSE b \in passed : \A c \in passed : c <= b
  <1>2. v = IF (w.next > 0 /\ w.next > t) \/ ResetEvery = 0 THEN w
            ELSE IF passed # {}
            THEN [w EXCEPT !.used = 0, !.last = latest, !.next = NextReset(latest, w.ends)]
            ELSE IF w.next = 0 /\ NextReset(base, w.ends) > 0
            THEN [w EXCEPT !.next = NextReset(base, w.ends), !.last = base]
            ELSE w
    BY <1>1 DEF MaybeReset
  <1>3. passed \in SUBSET (0..t) /\ \A b \in passed : b > base
    BY DEF Passed
  <1>4. passed # {} => latest \in passed
    <2> HIDE DEF passed
    <2>1. passed # {} => \E n \in passed : \A k \in passed : k <= n
      BY <1>3, LatestOf
    <2> QED
      BY <2>1
  <1> HIDE DEF passed, latest
  <1>5. passed # {} => latest \in Nat /\ latest > base
    <2>1. \A b \in passed : b \in Nat /\ b > base
      BY <1>3
    <2> QED BY <2>1, <1>4, Zenon
  <1>6. ~(w.next = 0 /\ NextReset(base, w.ends) > 0)
    BY <1>0, <1>1 DEF NoLateReset
  <1>7. CASE v = w
    BY <1>7
  <1>8. CASE passed # {} /\ v = [w EXCEPT !.used = 0, !.last = latest,
                                          !.next = NextReset(latest, w.ends)]
    <2>1. PICK l \in Nat : l = latest /\ l > base
      BY <1>5, <1>8
    <2>2. PICK n \in Nat : n = NextReset(l, w.ends)
      BY <1>0, NextResetType
    <2>3. v = [w EXCEPT !.used = 0, !.last = l, !.next = n]
      BY <1>8, <2>1, <2>2
    <2>4. v \in Row /\ v.used = 0 /\ v.last = l /\ v.next = n /\ v.ends = w.ends
      <3> DEFINE u == [w EXCEPT !.used = 0, !.last = l, !.next = n]
      <3>1. u \in Row /\ u.used = 0 /\ u.last = l /\ u.next = n /\ u.ends = w.ends
        BY DEF Row
      <3>2. v = u
        BY <2>3
      <3> HIDE DEF u
      <3> QED BY <3>1, <3>2, Zenon
    <2>5. l > w.last /\ l > 0
      <3>1. base >= w.last
        BY <1>0, <1>1 DEF Start
      <3> QED BY <1>0, <2>1, <3>1
    <2>6. NoLateReset(v)
      <3>1. (IF v.last <= 0 THEN Start ELSE v.last) = l
        BY <2>4, <2>5
      <3>2. NextReset(IF v.last <= 0 THEN Start ELSE v.last, v.ends) = v.next
        BY <3>1, <2>2, <2>4, Zenon
      <3> QED BY <3>2 DEF NoLateReset
    <2> QED BY <2>4, <2>5, <2>6
  <1> QED BY <1>2, <1>6, <1>7, <1>8

\* A charge to a row changes its used amount only.
LEMMA NoLateResetOf ==
  ASSUME NEW w, NEW v, NoLateReset(w),
         v.status = "active" => /\ w.status = "active" /\ v.next = w.next
                                /\ v.last = w.last /\ v.ends = w.ends
  PROVE  NoLateReset(v)
  BY DEF NoLateReset

\* A step that changes no charge, no used amount and no period.
LEMMA QuietAccounts ==
  ASSUME RowsInv, TypeOK', AccountsInv, ResetsPlanned',
         \A r \in Requests : SameCharge(r) /\ (req'[r].pc \in {"idle", "pre"} =>
                                                  req[r].pc \in {"idle", "pre"}),
         \A i \in Subs :
            /\ row'[i].used = row[i].used /\ row'[i].last = row[i].last
            /\ row'[i].status = "active" => /\ row[i].status = "active"
                                            /\ row'[i].ends = row[i].ends
                                            /\ row'[i].next = row[i].next
  PROVE  AccountsInv'
  <1>1. ChargedBefore'
    <2> SUFFICES ASSUME NEW r \in Requests
                 PROVE  /\ req'[r].pc \in {"idle", "pre"} => req'[r].sub = 0
                        /\ req'[r].sub # 0 => req'[r].since <= row'[req'[r].sub].last
      BY DEF ChargedBefore
    <2>1. req[r].sub \in Subs \cup {0}
      BY RequestFields DEF RowsInv
    <2> QED BY <2>1 DEF AccountsInv, ChargedBefore, SameCharge
  <1>2. \A i \in Subs : NoLateReset(row[i])'
    BY NoLateResetOf DEF AccountsInv
  <1>3. \A i \in Subs : Account(i)'
    BY AccountAlone DEF AccountsInv, RowsInv
  <1> QED BY <1>1, <1>2, <1>3 DEF AccountsInv

\* The reset task's transaction is not touched by a request's.
LEMMA ResetAlone ==
  ASSUME TypeOK, AccountsInv,
         \/ tx' = tx
         \/ \E r \in Requests, on \in SUBSET Subs, t \in Nat : Open(r, on, t)
         \/ \E r \in Requests : Close(r)
  PROVE  ResetsPlanned'
  <1>1. tx'["reset"] = tx["reset"]
    BY Constants DEF TypeOK, Open, Close
  <1> QED BY <1>1 DEF ResetsPlanned, AccountsInv, On

\* A request moves on and its charge stays.
LEMMA SameCharges ==
  ASSUME TypeOK, NEW r \in Requests,
         \/ \E p \in {"pre", "adjust", "done"}, g \in Nat : req' = [req EXCEPT ![r].pc = p, ![r].goal = g]
         \/ req' = [req EXCEPT ![r].pc = "done"],
         req'[r].pc = "pre" => req[r].pc = "idle"
  PROVE  \A s \in Requests : SameCharge(s) /\ (req'[s].pc \in {"idle", "pre"} =>
                                                  req[s].pc \in {"idle", "pre"})
  <1> SUFFICES ASSUME NEW s \in Requests
               PROVE  SameCharge(s) /\ (req'[s].pc \in {"idle", "pre"} => req[s].pc \in {"idle", "pre"})
    OBVIOUS
  <1>1. DOMAIN req = Requests /\ req[r] \in Request
    BY DEF TypeOK
  <1>2. CASE s # r
    BY <1>1, <1>2 DEF SameCharge
  <1>3. CASE s = r
    <2>1. /\ req'[r].sub = req[r].sub /\ req'[r].held = req[r].held
          /\ req'[r].since = req[r].since /\ req'[r].adjusted = req[r].adjusted
          /\ req'[r].pc \in {"pre", "adjust", "done"}
      BY <1>1 DEF Request
    <2> QED BY <1>3, <2>1 DEF SameCharge
  <1> QED BY <1>2, <1>3

\* The steps that open a transaction or end a request.
LEMMA OpensAccount ==
  ASSUME RowsInv, RowsInv', AccountsInv, NEW r \in Requests,
         \/ \E a \in Amounts, t \in Start..now : BeginPreConsume(r, a, t)
         \/ \E g \in Amounts \cup {0} : BeginAdjust(r, g)
         \/ Keep(r)
  PROVE  AccountsInv'
  <1>1. TypeOK /\ TypeOK' /\ now \in Nat
    BY DEF RowsInv, TypeOK
  <1>2. row' = row
    BY DEF BeginPreConsume, BeginAdjust, Keep
  <1>3. /\ \/ \E p \in {"pre", "adjust", "done"}, g \in Nat : req' = [req EXCEPT ![r].pc = p, ![r].goal = g]
           \/ req' = [req EXCEPT ![r].pc = "done"]
        /\ req'[r].pc = "pre" => req[r].pc = "idle"
    <2>1. CASE \E a \in Amounts, t \in Start..now : BeginPreConsume(r, a, t)
      <3>1. PICK a \in Amounts : req' = [req EXCEPT ![r].pc = "pre", ![r].goal = a] /\ req[r].pc = "idle"
        BY <2>1 DEF BeginPreConsume
      <3>2. a \in Nat
        BY Constants
      <3> QED BY <3>1, <3>2
    <2>2. CASE \E g \in Amounts \cup {0} : BeginAdjust(r, g)
      <3>1. PICK g \in Amounts \cup {0} : req' = [req EXCEPT ![r].pc = "adjust", ![r].goal = g]
        BY <2>2 DEF BeginAdjust
      <3>2. g \in Nat
        BY Constants
      <3>3. req'[r].pc = "adjust"
        BY <3>1, <1>1 DEF TypeOK, Request
      <3> QED BY <3>1, <3>2, <3>3
    <2>3. CASE Keep(r)
      <3>1. req' = [req EXCEPT ![r].pc = "done"] /\ req'[r].pc = "done"
        BY <2>3, <1>1 DEF Keep, TypeOK, Request
      <3> QED BY <3>1
    <2> QED BY <2>1, <2>2, <2>3
  <1>4. ResetsPlanned'
    <2>1. \/ tx' = tx
          \/ \E s \in Requests, on \in SUBSET Subs, t \in Nat : Open(s, on, t)
      <3>1. CASE \E a \in Amounts, t \in Start..now : BeginPreConsume(r, a, t)
        <4>1. PICK t \in Start..now : Open(r, LiveAt(t), t)
          BY <3>1 DEF BeginPreConsume
        <4>2. t \in Nat /\ LiveAt(t) \in SUBSET Subs
          BY <1>1 DEF Start, LiveAt
        <4> QED BY <4>1, <4>2
      <3>2. CASE \E g \in Amounts \cup {0} : BeginAdjust(r, g)
        <4>1. Open(r, {req[r].sub}, now) /\ req[r].pc = "held"
          BY <3>2 DEF BeginAdjust
        <4>2. {req[r].sub} \in SUBSET Subs
          BY <4>1 DEF RowsInv, RequestShape
        <4> QED BY <4>1, <4>2, <1>1
      <3>3. CASE Keep(r)
        BY <3>3 DEF Keep
      <3> QED BY <3>1, <3>2, <3>3
    <2> QED BY <1>1, <2>1, ResetAlone
  <1>5. \A s \in Requests : SameCharge(s) /\ (req'[s].pc \in {"idle", "pre"} =>
                                                req[s].pc \in {"idle", "pre"})
    BY <1>1, <1>3, SameCharges
  <1> QED BY <1>1, <1>2, <1>4, <1>5, QuietAccounts

\* The other steps that change neither a charge nor a used amount.
LEMMA StatementsAccount ==
  ASSUME RowsInv, RowsInv', AccountsInv,
         \/ \E i \in Subs : BeginReset(i) \/ Invalidate(i) \/ Delete(i)
         \/ ListDue \/ Tick \/ UNCHANGED vars
         \/ \E t \in Start..now : Expire(t)
  PROVE  AccountsInv'
  <1>1. TypeOK /\ TypeOK'
    BY DEF RowsInv
  <1>2. req' = req
    BY DEF BeginReset, Invalidate, Delete, ListDue, Tick, Expire, vars
  <1>3. \A s \in Requests : SameCharge(s) /\ (req'[s].pc \in {"idle", "pre"} =>
                                                req[s].pc \in {"idle", "pre"})
    BY <1>2 DEF SameCharge
  <1>4. ResetsPlanned'
    <2>1. CASE tx' = tx
      BY <1>1, <2>1, ResetAlone
    <2>2. ASSUME NEW i \in Subs, BeginReset(i), tx' # tx PROVE ResetsPlanned'
      <3>1. Open("reset", {i}, job.at) /\ row[i].next > 0
        BY <2>2 DEF BeginReset
      <3>2. tx'["reset"] = [rows |-> [j \in {i} |-> row[j]], at |-> job.at]
        BY <1>1, <3>1, Constants DEF Open, TypeOK
      <3>3. DOMAIN tx'["reset"].rows = {i} /\ tx'["reset"].rows[i] = row[i]
        BY <3>2
      <3> QED BY <3>1, <3>3 DEF ResetsPlanned, On
    <2> QED BY <2>1, <2>2 DEF Invalidate, Delete, ListDue, Tick, Expire, vars
  <1>5. ASSUME NEW j \in Subs
        PROVE  /\ row'[j].used = row[j].used /\ row'[j].last = row[j].last
               /\ row'[j].status = "active" => /\ row[j].status = "active"
                                               /\ row'[j].ends = row[j].ends
                                               /\ row'[j].next = row[j].next
    <2>0. DOMAIN row = Subs /\ row[j] \in Row
      BY <1>1 DEF TypeOK
    <2>1. CASE row' = row
      BY <2>1
    <2>2. ASSUME NEW i \in Subs, Invalidate(i) PROVE row'[j] = row[j] \/ row'[j] = [row[j] EXCEPT !.status = "cancelled", !.ends = now]
      BY <2>0, <2>2 DEF Invalidate
    <2>3. ASSUME NEW i \in Subs, Delete(i) PROVE row'[j] = row[j] \/ row'[j] = [row[j] EXCEPT !.exists = FALSE]
      BY <2>0, <2>3 DEF Delete
    <2>4. ASSUME NEW t \in Start..now, Expire(t) PROVE row'[j] = row[j] \/ row'[j] = [row[j] EXCEPT !.status = "expired"]
      BY <2>4 DEF Expire
    <2>5. CASE row'[j] = [row[j] EXCEPT !.status = "cancelled", !.ends = now]
      BY <2>0, <2>5 DEF Row
    <2>6. CASE row'[j] = [row[j] EXCEPT !.exists = FALSE]
      BY <2>0, <2>6 DEF Row
    <2>7. CASE row'[j] = [row[j] EXCEPT !.status = "expired"]
      BY <2>0, <2>7 DEF Row
    <2>8. row'[j] = row[j] \/ row'[j] = [row[j] EXCEPT !.status = "cancelled", !.ends = now]
          \/ row'[j] = [row[j] EXCEPT !.exists = FALSE] \/ row'[j] = [row[j] EXCEPT !.status = "expired"]
      BY <2>2, <2>3, <2>4 DEF BeginReset, ListDue, Tick, vars
    <2>9. CASE row'[j] = row[j]
      BY <2>9
    <2> QED BY <2>5, <2>6, <2>7, <2>8, <2>9
  <1> QED BY <1>1, <1>3, <1>4, <1>5, QuietAccounts

\* A transaction that has read a live or a due row, where rows are locked,
\* starts a new period of it or leaves it alone.
LEMMA FreshPeriod ==
  ASSUME RowsInv, AccountsInv, RowLocks, NEW o \in Owners, NEW i \in On(o),
         o = "reset" \/ i \in Candidates(o)
  PROVE  /\ i \in Subs /\ tx[o].rows[i] = row[i]
         /\ \/ Fresh(o, i) = row[i]
            \/ /\ Fresh(o, i) \in Row /\ Fresh(o, i).used = 0
               /\ Fresh(o, i).last > row[i].last /\ NoLateReset(Fresh(o, i))
  <1>1. i \in Subs /\ tx[o].rows[i] \in Row /\ tx[o].at \in Nat
    BY TxFields DEF RowsInv
  <1>2. tx[o].rows[i] = row[i]
    BY DEF RowsInv, LocksProtect
  <1>3. PICK w \in Row : w = row[i]
    BY <1>1, <1>2
  <1>4. PICK t \in Nat : t = tx[o].at
    BY <1>1
  <1>5. PICK v : v = MaybeReset(w, t)
    OBVIOUS
  <1>6. Fresh(o, i) = v
    BY <1>2, <1>3, <1>4, <1>5 DEF Fresh
  <1>7. NoLateReset(w)
    BY <1>1, <1>3 DEF AccountsInv
  <1>8. w.next > 0 \/ w.status = "active"
    <2>1. CASE o = "reset"
      BY <1>2, <1>3, <2>1 DEF AccountsInv, ResetsPlanned
    <2>2. CASE i \in Candidates(o)
      BY <1>2, <1>3, <2>2 DEF Candidates, Live
    <2> QED BY <2>1, <2>2
  <1>9. v = w \/ (v \in Row /\ v.used = 0 /\ v.last > w.last /\ NoLateReset(v))
    BY <1>5, <1>7, <1>8, MaybeResetPeriod
  <1> QED BY <1>1, <1>2, <1>3, <1>6, <1>9

\* Charges of periods up to now stay so when a period only moves on.
LEMMA PeriodsMoveOn ==
  ASSUME TypeOK, TypeOK', AccountsInv, NEW r \in Requests,
         \A i \in Subs : row'[i].last >= row[i].last,
         req'[r].sub = req[r].sub, req'[r].since = req[r].since,
         req'[r].pc \in {"idle", "pre"} => req[r].pc \in {"idle", "pre"}
  PROVE  /\ req'[r].pc \in {"idle", "pre"} => req'[r].sub = 0
         /\ req'[r].sub # 0 => req'[r].since <= row'[req'[r].sub].last
  <1>1. req[r].sub \in Subs \cup {0} /\ req[r].since \in Nat
    BY RequestFields
  <1>2. CASE req[r].sub = 0
    BY <1>2
  <1>3. CASE req[r].sub \in Subs
    <2>1. PICK i \in Subs : i = req[r].sub
      BY <1>3
    <2>2. i # 0 /\ row[i].last \in Nat /\ row'[i].last \in Nat
      BY Constants DEF TypeOK, Row
    <2>3. req[r].since <= row[i].last
      BY <2>1, <2>2 DEF AccountsInv, ChargedBefore
    <2>4. req[r].since <= row'[i].last
      BY <1>1, <2>2, <2>3
    <2>5. req[r].pc \in {"idle", "pre"} => req[r].sub = 0
      BY DEF AccountsInv, ChargedBefore
    <2> QED BY <2>1, <2>4, <2>5
  <1> QED BY <1>1, <1>2, <1>3

\* A reset starts a period with nothing charged.
LEMMA ResetAccounts ==
  ASSUME RowsInv, RowsInv', RowLocks, AccountsInv, NEW i \in Subs, CommitReset(i)
  PROVE  AccountsInv'
  <1>1. /\ TypeOK /\ TypeOK' /\ i \in On("reset") /\ Close("reset") /\ req' = req
        /\ "reset" \in Owners
    BY Constants DEF RowsInv, CommitReset
  <1>2. PICK v : v = Fresh("reset", i)
    OBVIOUS
  <1>3. /\ tx["reset"].rows[i] = row[i]
        /\ \/ v = row[i]
           \/ v \in Row /\ v.used = 0 /\ v.last > row[i].last /\ NoLateReset(v)
    BY <1>1, <1>2, FreshPeriod
  <1>4. row'[i] = v /\ \A j \in Subs : j # i => row'[j] = row[j]
    BY <1>1, <1>2, <1>3 DEF CommitReset, Fresh, TypeOK
  <1>5. ResetsPlanned'
    <2>1. On("reset")' = {}
      BY <1>1 DEF Close, Closed, NoRows, On, TypeOK
    <2> QED BY <2>1 DEF ResetsPlanned
  <1>6. \A j \in Subs : row'[j].last >= row[j].last
    <2>1. \A j \in Subs : row[j].last \in Nat /\ row'[j].last \in Nat
      BY <1>1 DEF TypeOK, Row
    <2> QED BY <2>1, <1>3, <1>4
  <1>7. ChargedBefore'
    BY <1>1, <1>6, PeriodsMoveOn DEF ChargedBefore
  <1>8. \A j \in Subs : NoLateReset(row[j])'
    BY <1>3, <1>4 DEF AccountsInv
  <1>9. ASSUME NEW j \in Subs PROVE Account(j)'
    <2>1. Account(j) /\ \A r \in Requests : SameCharge(r)
      BY <1>1 DEF AccountsInv, SameCharge
    <2>2. CASE row'[j] = row[j]
      BY <1>1, <2>1, <2>2, AccountAlone
    <2>3. CASE row'[j] # row[j]
      <3>1. j = i /\ row'[j].used = 0 /\ row'[j].last > row[j].last
        BY <1>3, <1>4, <2>3
      <3>2. \A r \in Requests : req'[r].sub = j => req'[r].since <= row[j].last
        BY <1>1, Constants DEF AccountsInv, ChargedBefore
      <3> QED BY <1>1, <3>1, <3>2, AccountReset
    <2> QED BY <2>2, <2>3
  <1> QED BY <1>5, <1>7, <1>8, <1>9 DEF AccountsInv

\* A pre-consume charges the row it has chosen, in its period.
LEMMA PreConsumeAccounts ==
  ASSUME RowsInv, RowsInv', RowLocks, AccountsInv, NEW r \in Requests, CommitPreConsume(r)
  PROVE  AccountsInv'
  <1>1. /\ TypeOK /\ TypeOK' /\ r \in Owners /\ req[r].pc = "pre" /\ Close(r)
    BY Constants DEF RowsInv, CommitPreConsume
  <1>2. PICK a \in Nat : a = req[r].goal
    BY <1>1, RequestFields
  <1>3. PICK c : c = Chosen(r, a)
    OBVIOUS
  <1>4. ResetsPlanned'
    BY <1>1, ResetAlone
  <1>5. CASE c = 0
    <2>1. row' = row /\ req' = [req EXCEPT ![r].pc = "done"]
      BY <1>2, <1>3, <1>5 DEF CommitPreConsume
    <2>2. req'[r].pc = "done"
      BY <1>1, <2>1 DEF TypeOK, Request
    <2>3. \A s \in Requests : SameCharge(s) /\ (req'[s].pc \in {"idle", "pre"} =>
                                                  req[s].pc \in {"idle", "pre"})
      BY <1>1, <2>1, <2>2, SameCharges
    <2> QED BY <1>1, <1>4, <2>1, <2>3, QuietAccounts
  <1>6. CASE c # 0
    <2>1. /\ row' = [i \in Subs |->
                  IF i = c THEN [Fresh(r, c) EXCEPT !.used = @ + a]
                  ELSE IF i \in Candidates(r) /\ i < c /\ Fresh(r, i) # tx[r].rows[i]
                       THEN Fresh(r, i)
                  ELSE row[i]]
          /\ req' = [req EXCEPT ![r] = [@ EXCEPT !.pc = "held", !.sub = c, !.held = a,
                                                 !.since = Fresh(r, c).last]]
      BY <1>2, <1>3, <1>6 DEF CommitPreConsume
    <2>2. c \in On(r) /\ c \in Candidates(r)
      BY <1>1, <1>3, <1>6, ChosenCovers
    <2>3. PICK v : v = Fresh(r, c)
      OBVIOUS
    <2>4. /\ c \in Subs
          /\ \/ v = row[c]
             \/ v \in Row /\ v.used = 0 /\ v.last > row[c].last /\ NoLateReset(v)
      BY <1>1, <2>2, <2>3, FreshPeriod
    <2>5. v \in Row /\ v.used \in Nat /\ v.last \in Nat
      <3>1. v \in Row
        BY <1>1, <2>4 DEF TypeOK
      <3> QED BY <3>1, RowFields
    <2>6. /\ row'[c].used = v.used + a /\ row'[c].last = v.last /\ row'[c].status = v.status
          /\ row'[c].next = v.next /\ row'[c].ends = v.ends
      <3>1. row'[c] = [v EXCEPT !.used = @ + a]
        BY <2>1, <2>3, <2>4
      <3> QED BY <3>1, <2>5 DEF Row
    <2>7. ASSUME NEW i \in Subs, i # c
          PROVE  \/ row'[i] = row[i]
                 \/ row'[i].used = 0 /\ row'[i].last > row[i].last /\ NoLateReset(row'[i])
      <3>1. row'[i] = row[i] \/ (i \in Candidates(r) /\ row'[i] = Fresh(r, i))
        BY <2>1, <2>7
      <3>2. CASE i \in Candidates(r) /\ row'[i] = Fresh(r, i)
        <4>1. i \in On(r)
          BY <3>2 DEF Candidates
        <4> QED BY <1>1, <3>2, <4>1, FreshPeriod
      <3> QED BY <3>1, <3>2
    <2>8. /\ req'[r].pc = "held" /\ req'[r].sub = c /\ req'[r].held = a /\ req'[r].since = v.last
          /\ \A s \in Requests : s # r => req'[s] = req[s]
      BY <1>1, <2>1, <2>3 DEF TypeOK, Request
    <2>9. \A s \in Requests : s # r => SameCharge(s)
      BY <2>8 DEF SameCharge
    <2>10. req[r].sub = 0
      BY <1>1 DEF AccountsInv, ChargedBefore
    <2>11. \A i \in Subs : row'[i].last >= row[i].last
      <3>1. \A i \in Subs : row[i].last \in Nat /\ row'[i].last \in Nat
        BY <1>1 DEF TypeOK, Row
      <3> QED BY <3>1, <2>4, <2>6, <2>7
    <2>12. ChargedBefore'
      <3>1. ASSUME NEW s \in Requests
            PROVE  /\ req'[s].pc \in {"idle", "pre"} => req'[s].sub = 0
                   /\ req'[s].sub # 0 => req'[s].since <= row'[req'[s].sub].last
        <4>1. CASE s = r
          BY <4>1, <2>5, <2>6, <2>8
        <4>2. CASE s # r
          BY <4>2, <1>1, <2>8, <2>11, PeriodsMoveOn
        <4> QED BY <4>1, <4>2
      <3> QED BY <3>1 DEF ChargedBefore
    <2>13. \A i \in Subs : NoLateReset(row[i])'
      <3>1. NoLateReset(v)
        BY <2>4 DEF AccountsInv
      <3>2. NoLateReset(row'[c])
        BY <2>6, <3>1, NoLateResetOf
      <3>3. \A i \in Subs : i # c => NoLateReset(row'[i])
        BY <2>7 DEF AccountsInv
      <3> QED BY <3>2, <3>3
    <2>14. \A i \in Subs : Account(i) /\ i # 0
                           /\ \A s \in Requests : req[s].sub = i => req[s].since <= row[i].last
      BY Constants DEF AccountsInv, ChargedBefore
    <2>15. Account(c)'
      <3>1. CASE v = row[c]
        BY <3>1, <1>1, <2>4, <2>6, <2>8, <2>9, <2>10, <2>14, AccountCharged
      <3>2. CASE v.used = 0 /\ v.last > row[c].last
        <4>1. row'[c].used = a /\ row'[c].last > row[c].last
          BY <3>2, <2>6
        <4>2. \A s \in Requests : s # r => (req'[s].sub = c => req'[s].since <= row[c].last)
          BY <2>4, <2>8, <2>14
        <4> QED BY <4>1, <4>2, <1>1, <2>4, <2>6, <2>8, AccountResetCharged
      <3> QED BY <2>4, <3>1, <3>2
    <2>16. ASSUME NEW i \in Subs, i # c PROVE Account(i)'
      <3>1. CASE row'[i] = row[i]
        BY <3>1, <1>1, <2>8, <2>9, <2>10, <2>14, <2>16, AccountAlone
      <3>2. CASE row'[i].used = 0 /\ row'[i].last > row[i].last
        <4>1. \A s \in Requests : req'[s].sub = i => req'[s].since <= row[i].last
          BY <2>8, <2>14, <2>16
        <4> QED BY <3>2, <4>1, <1>1, AccountReset
      <3> QED BY <2>7, <2>16, <3>1, <3>2
    <2> QED BY <1>4, <2>12, <2>13, <2>15, <2>16 DEF AccountsInv
  <1> QED BY <1>5, <1>6

\* A settlement or refund changes the row by what it changes the charge.
LEMMA AdjustAccounts ==
  ASSUME RowsInv, RowsInv', RowLocks, AccountsInv, NEW r \in Requests, CommitAdjust(r)
  PROVE  AccountsInv'
  <1>1. /\ TypeOK /\ TypeOK' /\ r \in Owners /\ req[r].pc = "adjust" /\ Close(r)
    BY Constants DEF RowsInv, CommitAdjust
  <1>2. PICK i \in Subs : i = req[r].sub /\ On(r) = {i}
    BY <1>1 DEF RowsInv, RequestShape
  <1>3. PICK w \in Row : w = row[i] /\ w = tx[r].rows[i]
    BY <1>1, <1>2 DEF RowsInv, LocksProtect, TypeOK
  <1>4. w.used \in Nat /\ w.last \in Nat /\ req[r].goal \in Nat /\ req[r].held \in Nat
    BY <1>1, RowFields, RequestFields
  <1>5. PICK n \in Nat : n = IF w.used + req[r].goal - req[r].held < 0 THEN 0
                             ELSE w.used + req[r].goal - req[r].held
    BY <1>4
  <1>6. ResetsPlanned'
    BY <1>1, ResetAlone
  <1>7. CASE row' = row /\ req' = [req EXCEPT ![r].pc = "done"]
    <2>1. req'[r].pc = "done"
      BY <1>1, <1>7 DEF TypeOK, Request
    <2>2. \A s \in Requests : SameCharge(s) /\ (req'[s].pc \in {"idle", "pre"} =>
                                                  req[s].pc \in {"idle", "pre"})
      BY <1>1, <1>7, <2>1, SameCharges
    <2> QED BY <1>1, <1>6, <1>7, <2>2, QuietAccounts
  <1>8. CASE /\ row' = [row EXCEPT ![i] = [w EXCEPT !.used = n]]
             /\ req' = [req EXCEPT ![r] = [@ EXCEPT !.pc = "done", !.held = req[r].goal,
                                                    !.adjusted = w.last]]
    <2>1. /\ row'[i].used = n /\ row'[i].last = w.last /\ row'[i].status = w.status
          /\ row'[i].next = w.next /\ row'[i].ends = w.ends
          /\ \A j \in Subs : j # i => row'[j] = row[j]
      <3>1. row'[i] = [w EXCEPT !.used = n] /\ \A j \in Subs : j # i => row'[j] = row[j]
        BY <1>1, <1>8 DEF TypeOK
      <3> QED BY <3>1 DEF Row
    <2>2. /\ req'[r].pc = "done" /\ req'[r].sub = i /\ req'[r].since = req[r].since
          /\ req'[r].held = req[r].goal /\ req'[r].adjusted = w.last
          /\ \A s \in Requests : s # r => req'[s] = req[s]
      BY <1>1, <1>2, <1>8 DEF TypeOK, Request
    <2>3. \A s \in Requests : s # r => SameCharge(s)
      BY <2>2 DEF SameCharge
    <2>4. \A j \in Subs : row'[j].last >= row[j].last
      <3>1. \A j \in Subs : row[j].last \in Nat
        BY <1>1 DEF TypeOK, Row
      <3>2. \A j \in Subs : row'[j].last = row[j].last
        BY <1>3, <2>1
      <3> QED BY <3>1, <3>2
    <2>5. ChargedBefore'
      BY <1>1, <1>2, <2>2, <2>4, PeriodsMoveOn DEF ChargedBefore
    <2>6. \A j \in Subs : NoLateReset(row[j])'
      <3>1. NoLateReset(row[i])
        BY <1>2 DEF AccountsInv
      <3>2. /\ row'[i].next = row[i].next /\ row'[i].last = row[i].last
            /\ row'[i].ends = row[i].ends /\ row'[i].status = row[i].status
        BY <1>3, <2>1
      <3>3. NoLateReset(row'[i])
        BY <3>1, <3>2, NoLateResetOf, Zenon
      <3>4. \A j \in Subs : j # i => NoLateReset(row'[j])
        BY <2>1 DEF AccountsInv
      <3> QED BY <3>3, <3>4
    <2>7. Account(i) /\ req[r].since <= row[i].last
      BY <1>2, Constants DEF AccountsInv, ChargedBefore
    <2>8. PICK g \in Nat : g = req[r].goal
      BY <1>4
    <2>9. Account(i)'
      <3>1. row'[i].used = IF row[i].used + g - req[r].held < 0 THEN 0
                           ELSE row[i].used + g - req[r].held
        BY <1>3, <1>5, <2>1, <2>8
      <3>2. /\ req[r].sub = i /\ req'[r].held = g /\ req'[r].adjusted = row[i].last
            /\ row'[i].last = row[i].last
        BY <1>2, <1>3, <2>1, <2>2, <2>8
      <3> QED BY <3>1, <3>2, <1>1, <2>2, <2>3, <2>7, AccountAdjusted, Zenon
    <2>10. \A j \in Subs : j # i => Account(j)'
      <3> TAKE j \in Subs
      <3> HAVE j # i
      <3>1. \A s \in Requests : SameCharge(s) \/ (req[s].sub # j /\ req'[s].sub # j)
        BY <1>2, <2>2, <2>3
      <3>2. Account(j) /\ row'[j] = row[j]
        BY <2>1 DEF AccountsInv
      <3> QED BY <1>1, <3>1, <3>2, AccountAlone
    <2> QED BY <1>6, <2>5, <2>6, <2>9, <2>10 DEF AccountsInv
  <1> QED BY <1>2, <1>3, <1>5, <1>7, <1>8 DEF CommitAdjust

\* Nothing is charged at the start, and no reset is missing.
LEMMA InitAccounts == Init /\ RowsInv => AccountsInv
  <1> SUFFICES ASSUME Init, RowsInv PROVE AccountsInv
    OBVIOUS
  <1>1. TypeOK
    BY DEF RowsInv
  <1>2. \A r \in Requests : req[r].sub = 0 /\ req[r].pc = "idle"
    BY DEF Init, NoRequest
  <1>3. ChargedBefore
    BY <1>2 DEF ChargedBefore
  <1>4. ResetsPlanned
    BY Constants DEF Init, ResetsPlanned, On, Closed, NoRows
  <1>5. ASSUME NEW i \in Subs PROVE NoLateReset(row[i]) /\ row[i].used = 0
    <2>1. PICK n \in Nat : n = NextReset(Start, Ends[i])
      BY NextResetType, Constants DEF Start
    <2>2. row[i] = [exists |-> TRUE, status |-> "active", ends |-> Ends[i], used |-> 0,
                    last |-> IF n > 0 THEN Start ELSE 0, next |-> n]
      BY <2>1 DEF Init
    <2>3. row[i].used = 0 /\ row[i].next = n /\ row[i].ends = Ends[i]
          /\ row[i].last = IF n > 0 THEN Start ELSE 0
      BY <2>2
    <2>4. n = 0 => (IF row[i].last <= 0 THEN Start ELSE row[i].last) = Start
      BY <2>3
    <2>5. n = 0 => NextReset(IF row[i].last <= 0 THEN Start ELSE row[i].last, row[i].ends) = 0
      BY <2>1, <2>3, <2>4, Zenon
    <2> QED BY <2>3, <2>5 DEF NoLateReset
  <1>6. ASSUME NEW i \in Subs PROVE Account(i)
    <2>1. \A r \in Requests : Charges(i)[r] = 0
      BY <1>1, <1>2, ChargesType, Constants DEF Charge
    <2>2. SumFunction(Charges(i)) = 0
      BY <1>1, <2>1, ChargesType, SumType, LedgerAssumption
    <2> QED BY <1>1, <1>5, <2>2, ChargesType DEF Account
  <1> QED BY <1>3, <1>4, <1>5, <1>6 DEF AccountsInv

\* Every step keeps the accounts.
LEMMA NextAccounts ==
  ASSUME RowsInv, RowsInv', RowLocks, AccountsInv, [Next]_vars
  PROVE  AccountsInv'
  BY OpensAccount, PreConsumeAccounts, AdjustAccounts, ResetAccounts, StatementsAccount
  DEF Next, Finished

-----------------------------------------------------------------------------

\* For any subscriptions and requests, with row locks or without: rows, open
\* transactions and the reset task's list keep their shape and no row is used
\* past its total; with row locks the rows agree with the requests.
THEOREM Inductive == Spec => []LedgerInv
  <1>1. Init => LedgerInv
    BY InitLedger, InitAccounts DEF LedgerInv
  <1>2. LedgerInv /\ [Next]_vars => LedgerInv'
    BY NextLedger, NextAccounts DEF LedgerInv
  <1> QED BY <1>1, <1>2, PTL DEF Spec

\* Where the database runs the write transactions on a row one after the
\* other, the used amount is the sum of what the requests of the period hold:
\* no interleaving loses or repeats a charge, a settlement or a refund, and
\* the clamp at zero swallows nothing.
THEOREM Accounted == RowLocks => (Spec => []UsedAccounted)
  <1> SUFFICES ASSUME RowLocks PROVE Spec => []UsedAccounted
    OBVIOUS
  <1>1. LedgerInv => UsedAccounted
    BY DEF LedgerInv, AccountsInv, Account, UsedAccounted
  <1> QED BY <1>1, Inductive, PTL

\* There, the requests of one period never hold more than the total.
THEOREM HoldsBounded == RowLocks => (Spec => []HoldsWithinTotal)
  <1> SUFFICES ASSUME RowLocks PROVE Spec => []HoldsWithinTotal
    OBVIOUS
  <1>1. LedgerInv => HoldsWithinTotal
    BY DEF LedgerInv, AccountsInv, Account, HoldsWithinTotal, RowsInv, UsedWithinTotal
  <1> QED BY <1>1, Inductive, PTL

\* On a database that runs the write transactions on a row one after the
\* other, a subscription that was cancelled, deleted or has run out stays so:
\* no transaction in flight writes the old row back over it.
THEOREM EndsForGood == RowLocks => (Spec => EndedStaysEnded)
  <1> SUFFICES ASSUME RowLocks PROVE Spec => EndedStaysEnded
    OBVIOUS
  <1> DEFINE A == \A i \in Subs : ~Live(row[i], now) => ~Live(row[i], now)'
  <1>1. LedgerInv /\ [Next]_vars => A
    <2> SUFFICES ASSUME LedgerInv, [Next]_vars, NEW i \in Subs, Live(row[i], now)'
                 PROVE  Live(row[i], now)
      OBVIOUS
    <2>1. RowsInv /\ RowsInv' /\ (now' = now \/ now' = now + 1) /\ NoRevival
      BY NextLedger DEF LedgerInv
    <2>2. row[i] \in Row /\ now \in Nat /\ now' \in Nat
      BY <2>1 DEF RowsInv, TypeOK
    <2>3. PICK t \in Nat : t = now'
      BY <2>2
    <2>4. Live(row[i], t)'
      BY <2>3 DEF Live
    <2>5. Live(row[i], t)
      BY <2>1, <2>4 DEF NoRevival
    <2>6. row[i].ends \in Nat /\ row[i].ends > t
      BY <2>2, <2>5, RowFields DEF Live
    <2>7. row[i].ends > now
      BY <2>1, <2>2, <2>3, <2>6
    <2> QED
      BY <2>5, <2>7 DEF Live
  <1> QED
    BY <1>1, Inductive, PTL DEF Spec, EndedStaysEnded
=============================================================================
