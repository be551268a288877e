----------------------- MODULE BillingSession_proofs ------------------------
(***************************************************************************)
(* Proofs about BillingSession: its type invariant, the inductive          *)
(* invariant BillingInv and the safety properties that follow from it, for *)
(* any set of requests, any quotas and any number of database errors.      *)
(*                                                                         *)
(* A step of request r changes only r's session, charges and error count.  *)
(* So the first section shows, for each transition of a session, that      *)
(* RequestInv is preserved (no state variables); the second lifts this to  *)
(* the actions through the lemma StepPreserves.  Then come the refinement  *)
(* of BillingContract and, last, the subscription's books: its used amount *)
(* is a sum over the requests, which one step changes in one place (Sums). *)
(***************************************************************************)
EXTENDS BillingSessionInv, Sums, TLAPS

-----------------------------------------------------------------------------
(* Types of the records the transitions build.  The sets of names stay     *)
(* opaque here: the provers only need that the names used belong to them.  *)

\* Every position, source and outcome the actions write is a declared one.
LEMMA Names ==
    /\ {"idle", "begin", "wallet", "checkToken", "debitToken", "fund", "undoToken",
        "send", "reserveCheck", "reserveDebit", "undoReserve", "settle",
        "settleToken", "fee", "feeToken", "done"} \subseteq PCs
    /\ {"none", "wallet", "subscription"} \subseteq Sources
    /\ {"none", "fund", "extra", "token", "end"} \subseteq RefundPCs
    /\ {"none", "rejected", "failed", "ok", "panic"} \subseteq Outcomes
    /\ "relay" \in AllKinds /\ "wallet_only" \in AllPrefs
  BY DEF PCs, Sources, RefundPCs, Outcomes, AllKinds, AllPrefs

\* A request starts with a well-typed session and charge.
LEMMA IdleType == IdleSession \in Session /\ Nothing \in Paid
  BY Names DEF IdleSession, Session, Nothing, Paid

\* Rejecting a request keeps its session well typed.
LEMMA RejectType == ASSUME NEW s \in Session PROVE Reject(s) \in Session
  BY Names DEF Session, Reject

\* Starting an attempt with a funding source keeps the session well typed.
LEMMA AttemptType ==
    ASSUME NEW s \in Session, NEW src \in {"wallet", "subscription"}, NEW next \in Sources
    PROVE  Attempt(s, src, next) \in Session
  <1>1. Attempt(s, "wallet", next) \in Session
    BY Names DEF Session, Attempt
  <1>2. Attempt(s, "subscription", next) \in Session
    BY Names DEF Session, Attempt
  <1> QED BY <1>1, <1>2

\* Falling back to the other funding source keeps the session well typed.
LEMMA FallbackType == ASSUME NEW s \in Session PROVE Fallback(s) \in Session
  <1>1. CASE s.next = "none"
    BY <1>1, RejectType DEF Fallback
  <1>2. CASE s.next # "none"
    <2>1. s.next \in {"wallet", "subscription"}
      BY <1>2 DEF Session, Sources
    <2> QED BY <1>2, <2>1, Names, AttemptType DEF Fallback
  <1> QED BY <1>1, <1>2

\* A completed Reserve keeps the session well typed: the added quota is positive.
LEMMA ReservedType ==
    ASSUME NEW s \in Session, s.goal > s.pre PROVE Reserved(s) \in Session
  <1>1. s.tokenConsumed + (s.goal - s.pre) \in Nat /\ s.extra + (s.goal - s.pre) \in Nat
    BY DEF Session
  <1> QED BY <1>1, Names DEF Session, Reserved

-----------------------------------------------------------------------------
(* Transitions of one session.                                             *)

\* Nothing is held and nothing has been decided yet.
Clean(s, p, f) ==
    /\ s.pre = 0 /\ s.consumed = 0 /\ s.extra = 0 /\ s.out = "none"
    /\ ~s.settled /\ ~s.fundingSettled /\ ~s.refunded
    /\ s.gor = "none"
    /\ s.tokenConsumed = 0 \/ Playground(s)
    /\ p.wallet = 0 /\ p.token >= 0
    /\ f = 0 => p.sub = 0 /\ p.token = 0
    /\ Playground(s) => p.token = 0

USE DEF Session, Paid, SessionShape, EarlyShape, LateShape, Exact, Backed,
        FundingHeld, TokenHeld, TokenDue, Early, Reserving, Playground, Sources

\* Positions at which a session that holds nothing is clean.
LEMMA CleanBefore ==
    ASSUME NEW s \in Session, NEW p \in Paid, NEW f \in Nat, RequestInv(s, p, f),
           \/ s.pc \in {"begin", "wallet", "checkToken", "debitToken"}
           \/ s.pc = "fund" /\ (s.tokenConsumed = 0 \/ Playground(s))
    PROVE  Clean(s, p, f)
  BY DEF Clean, RequestInv

\* A clean session can be rejected: NewBillingSession returns without a charge.
LEMMA CleanReject ==
    ASSUME NEW s \in Session, NEW p \in Paid, NEW f \in Nat, Clean(s, p, f),
           NEW g \in Nat, g = 0 => f = 0
    PROVE  RequestInv(Reject(s), p, g)
  <1> DEFINE t == Reject(s)
  <1>1. SessionShape(t) /\ t.pc # "idle"
    BY DEF Clean, Reject
  <1>2. Backed(t, p)
    BY DEF Clean, Reject
  <1>3. g = 0 => Exact(t, p)
    BY DEF Clean, Reject
  <1> QED BY <1>1, <1>2, <1>3 DEF RequestInv

\* A clean session can start an attempt with either funding source.
LEMMA CleanAttempt ==
    ASSUME NEW s \in Session, NEW p \in Paid, NEW f \in Nat, Clean(s, p, f),
           NEW src \in {"wallet", "subscription"}, NEW next \in Sources,
           NEW g \in Nat, g = 0 => f = 0
    PROVE  RequestInv(Attempt(s, src, next), p, g)
  <1>1. CASE src = "wallet"
    <2> DEFINE t == Attempt(s, "wallet", next)
    <2>1. SessionShape(t) /\ t.pc # "idle"
      BY DEF Clean, Attempt
    <2>2. Backed(t, p)
      BY DEF Clean, Attempt
    <2>3. g = 0 => Exact(t, p)
      BY DEF Clean, Attempt
    <2> QED BY <1>1, <2>1, <2>2, <2>3 DEF RequestInv
  <1>2. CASE src = "subscription"
    <2> DEFINE t == Attempt(s, "subscription", next)
    <2>1. SessionShape(t) /\ t.pc # "idle"
      BY DEF Clean, Attempt
    <2>2. Backed(t, p)
      BY DEF Clean, Attempt
    <2>3. g = 0 => Exact(t, p)
      BY DEF Clean, Attempt
    <2> QED BY <1>2, <2>1, <2>2, <2>3 DEF RequestInv
  <1> QED BY <1>1, <1>2

\* A clean session can fall back, or be rejected if nothing is left to try.
LEMMA CleanFallback ==
    ASSUME NEW s \in Session, NEW p \in Paid, NEW f \in Nat, Clean(s, p, f),
           NEW g \in Nat, g = 0 => f = 0
    PROVE  RequestInv(Fallback(s), p, g)
  <1>1. CASE s.next = "none"
    BY <1>1, CleanReject DEF Fallback
  <1>2. CASE s.next # "none"
    <2>1. s.next \in {"wallet", "subscription"} /\ "none" \in Sources
      BY <1>2
    <2> HIDE DEF Session, Paid, Sources
    <2> QED BY <1>2, <2>1, CleanAttempt DEF Fallback
  <1> QED BY <1>1, <1>2

\* What r has paid after d moved from its funding source.
Moved(p, s, d) ==
    IF s.src = "wallet" THEN [p EXCEPT !.wallet = @ + d] ELSE [p EXCEPT !.sub = @ + d]

\* The typed pre-state of a transition, and a database result that keeps
\* "no error so far" true only if the call succeeded.
Before(s, p, f) == s \in Session /\ p \in Paid /\ f \in Nat /\ RequestInv(s, p, f)

\* Begin: a new request has the shape of an empty session.
LEMMA BeginInv ==
    ASSUME NEW s, NEW p, NEW f, Before(s, p, f), s.pc = "idle",
           NEW k \in AllKinds, NEW pr \in AllPrefs, NEW q \in Nat, NEW n \in Int
    PROVE  RequestInv([IdleSession EXCEPT !.pc = "begin", !.kind = k, !.pref = pr,
                                          !.est = q, !.tokenSeen = n], p, f)
  <1> DEFINE t == [IdleSession EXCEPT !.pc = "begin", !.kind = k, !.pref = pr,
                                      !.est = q, !.tokenSeen = n]
  <1>1. SessionShape(t) /\ t.pc # "idle"
    BY DEF IdleSession
  <1>2. f = 0 /\ p.wallet = 0 /\ p.sub = 0 /\ p.token = 0
    BY DEF RequestInv, Before
  <1>3. Backed(t, p) /\ Exact(t, p)
    BY <1>2 DEF IdleSession, Before
  <1> QED BY <1>1, <1>2, <1>3 DEF RequestInv

\* tryWallet, when the wallet read lets the request through.
LEMMA TryWalletInv ==
    ASSUME NEW s, NEW p, NEW f, Before(s, p, f), s.pc = "wallet",
           NEW b \in BOOLEAN, NEW e \in Nat
    PROVE  RequestInv([s EXCEPT !.trusted = b, !.eff = e,
                         !.pc = IF e > 0 THEN "checkToken" ELSE "fund"], p, f)
  BY DEF RequestInv, Before

\* PreConsumeTokenQuota, first half, when the token has enough.
LEMMA CheckTokenInv ==
    ASSUME NEW s, NEW p, NEW f, Before(s, p, f), s.pc = "checkToken"
    PROVE  /\ Playground(s) =>
                RequestInv([s EXCEPT !.pc = "fund", !.tokenConsumed = s.eff], p, f)
           /\ ~Playground(s) => RequestInv([s EXCEPT !.pc = "debitToken"], p, f)
  BY DEF RequestInv, Before

\* PreConsumeTokenQuota, second half: the token hold equals the estimate.
LEMMA DebitTokenInv ==
    ASSUME NEW s, NEW p, NEW f, Before(s, p, f), s.pc = "debitToken"
    PROVE  RequestInv([s EXCEPT !.pc = "fund", !.tokenConsumed = s.eff],
                      [p EXCEPT !.token = @ + s.eff], f)
  BY DEF RequestInv, Before

\* funding.PreConsume accepted: hold and token hold agree from here on.
LEMMA FundInv ==
    ASSUME NEW s, NEW p, NEW f, Before(s, p, f), s.pc = "fund"
    PROVE  RequestInv([s EXCEPT !.pc = "send", !.pre = s.eff, !.consumed = s.eff],
                      Moved(p, s, s.eff), f)
  BY DEF RequestInv, Before, Moved

\* funding.PreConsume refused after a token debit: the debit is still owed back.
LEMMA RefusedInv ==
    ASSUME NEW s, NEW p, NEW f, Before(s, p, f), s.pc = "fund",
           NEW n \in Sources, s.tokenConsumed > 0, ~Playground(s),
           NEW g \in Nat, g = 0 => f = 0
    PROVE  RequestInv([s EXCEPT !.next = n, !.pc = "undoToken"], p, g)
  BY DEF RequestInv, Before

\* The token roll-back leaves a clean session, or counts an error.
LEMMA UndoTokenClean ==
    ASSUME NEW s, NEW p, NEW f, Before(s, p, f), s.pc = "undoToken"
    PROVE  /\ Clean([s EXCEPT !.tokenConsumed = 0],
                    [p EXCEPT !.token = @ + (-s.tokenConsumed)], f)
           /\ Clean([s EXCEPT !.tokenConsumed = 0], p, f + 1)
  BY DEF RequestInv, Before, Clean

\* Reserve, after the funding source accepted d more.
LEMMA ReserveInv ==
    ASSUME NEW s, NEW p, NEW f, Before(s, p, f), s.pc = "send",
           NEW goal \in Nat, goal > s.pre,
           NEW t, t = [s EXCEPT !.goal = goal,
                         !.consumed = IF s.src = "wallet" THEN @ + (goal - s.pre) ELSE @]
    PROVE  /\ Playground(s) => RequestInv(Reserved(t), Moved(p, s, goal - s.pre), f)
           /\ ~Playground(s) => RequestInv([t EXCEPT !.pc = "reserveCheck"],
                                           Moved(p, s, goal - s.pre), f)
  <1> DEFINE c == IF s.src = "wallet" THEN s.consumed + (goal - s.pre) ELSE s.consumed
  <1>1. c \in Nat
    BY DEF Before
  <1>2. t \in Session
    <2> HIDE DEF c, Sources
    <2>1. t = [s EXCEPT !.goal = goal, !.consumed = c]
      BY DEF c
    <2> QED BY <1>1, <2>1, ZenonT(60) DEF Before
  <1>3. /\ t.pc = "send" /\ t.goal = goal /\ t.consumed = c /\ t.pre = s.pre
        /\ t.src = s.src /\ t.tokenConsumed = s.tokenConsumed /\ t.extra = s.extra
        /\ t.kind = s.kind /\ t.out = s.out /\ t.settled = s.settled
        /\ t.fundingSettled = s.fundingSettled /\ t.refunded = s.refunded /\ t.gor = s.gor
    BY DEF Before
  <1>4. CASE Playground(s)
    BY <1>2, <1>3, <1>4 DEF RequestInv, Before, Moved, Reserved
  <1>5. CASE ~Playground(s)
    BY <1>2, <1>3, <1>5 DEF RequestInv, Before, Moved
  <1> QED BY <1>4, <1>5

\* reserveToken, the comparison.
LEMMA ReserveCheckInv ==
    ASSUME NEW s, NEW p, NEW f, Before(s, p, f), s.pc = "reserveCheck",
           NEW pc \in {"undoReserve", "reserveDebit"}, NEW g \in Nat, g = 0 => f = 0
    PROVE  RequestInv([s EXCEPT !.pc = pc], p, g)
  BY DEF RequestInv, Before

\* reserveToken, the debit: funding source and token are raised alike.
LEMMA ReserveDebitInv ==
    ASSUME NEW s, NEW p, NEW f, Before(s, p, f), s.pc = "reserveDebit"
    PROVE  /\ RequestInv(Reserved(s), [p EXCEPT !.token = @ + (s.goal - s.pre)], f)
           /\ RequestInv([s EXCEPT !.pc = "undoReserve"], p, f + 1)
  BY DEF RequestInv, Before, Reserved

\* rollbackFundingReserve: the hold is what it was before Reserve.
LEMMA UndoReserveInv ==
    ASSUME NEW s, NEW p, NEW f, Before(s, p, f), s.pc = "undoReserve"
    PROVE  /\ RequestInv([s EXCEPT !.pc = "send",
                            !.consumed = IF s.src = "wallet" THEN @ - (s.goal - s.pre) ELSE @],
                         Moved(p, s, -(s.goal - s.pre)), f)
           /\ RequestInv([s EXCEPT !.pc = "send"], p, f + 1)
  <1>1. CASE s.src = "wallet"
    BY <1>1 DEF RequestInv, Before, Moved
  <1>2. CASE s.src # "wallet"
    BY <1>2 DEF RequestInv, Before, Moved
  <1> QED BY <1>1, <1>2

\* SettleBilling starts, or ends at once when there is no difference.
LEMMA RespondInv ==
    ASSUME NEW s, NEW p, NEW f, Before(s, p, f), s.pc = "send", NEW actual \in Nat
    PROVE  /\ actual = s.pre =>
                RequestInv([s EXCEPT !.goal = actual, !.out = "ok",
                              !.settled = TRUE, !.pc = "done"], p, f)
           /\ RequestInv([s EXCEPT !.goal = actual, !.out = "ok", !.pc = "settle"], p, f)
  BY DEF RequestInv, Before

\* Settle, step 1: the funding source stands at the actual quota.
LEMMA SettleFundingInv ==
    ASSUME NEW s, NEW p, NEW f, Before(s, p, f), s.pc = "settle"
    PROVE  /\ Playground(s) =>
                RequestInv([s EXCEPT !.fundingSettled = TRUE, !.settled = TRUE, !.pc = "done"],
                           Moved(p, s, s.goal - s.pre), f)
           /\ ~Playground(s) =>
                RequestInv([s EXCEPT !.fundingSettled = TRUE, !.pc = "settleToken"],
                           Moved(p, s, s.goal - s.pre), f)
  BY DEF RequestInv, Before, Moved

\* A refused settlement: by the database, or by a subscription that cannot
\* cover the positive delta.
LEMMA SettleRefusedInv ==
    ASSUME NEW s, NEW p, NEW f, Before(s, p, f), s.pc = "settle", NEW g \in Nat,
           g = 0 => f = 0 /\ s.src = "subscription" /\ s.goal > s.pre
    PROVE  RequestInv([s EXCEPT !.pc = "done"], p, g)
  BY DEF RequestInv, Before

\* Settle, step 2: so does the token, or an error is counted.
LEMMA SettleTokenInv ==
    ASSUME NEW s, NEW p, NEW f, Before(s, p, f), s.pc = "settleToken"
    PROVE  /\ RequestInv([s EXCEPT !.settled = TRUE, !.pc = "done"],
                         [p EXCEPT !.token = @ + (s.goal - s.pre)], f)
           /\ RequestInv([s EXCEPT !.settled = TRUE, !.pc = "done"], p, f + 1)
  BY DEF RequestInv, Before

\* Refund of a failed request: started exactly when something is held.
LEMMA FailInv ==
    ASSUME NEW s, NEW p, NEW f, Before(s, p, f), s.pc = "send", NEW pc \in {"fee", "done"}
    PROVE  /\ NeedsRefund(s) =>
                RequestInv([s EXCEPT !.out = "failed", !.refunded = TRUE,
                                     !.gor = "fund", !.pc = pc], p, f)
           /\ ~NeedsRefund(s) =>
                RequestInv([s EXCEPT !.out = "failed", !.pc = pc], p, f)
  BY DEF RequestInv, Before, NeedsRefund

\* A recovered panic leaves the hold in place.
LEMMA PanicInv ==
    ASSUME NEW s, NEW p, NEW f, Before(s, p, f), s.pc = "send"
    PROVE  RequestInv([s EXCEPT !.pc = "done", !.out = "panic"], p, f)
  BY DEF RequestInv, Before

\* A Refund after a settlement that was refused: the whole hold is still there.
LEMMA LatePanicInv ==
    ASSUME NEW s, NEW p, NEW f, Before(s, p, f), s.pc = "done", s.out = "ok", NeedsRefund(s)
    PROVE  RequestInv([s EXCEPT !.out = "panic", !.refunded = TRUE, !.gor = "fund"], p, f)
  BY DEF RequestInv, Before, NeedsRefund

\* The violation fee is charged beside the session and leaves it alone.
LEMMA FeeInv ==
    ASSUME NEW s, NEW p, NEW f, Before(s, p, f), s.pc \in {"fee", "feeToken"},
           NEW pc \in {"feeToken", "done"}, Playground(s) => pc = "done",
           NEW g \in Nat, g = 0 => f = 0, NEW fee \in Nat
    PROVE  /\ RequestInv([s EXCEPT !.pc = pc], p, g)
           /\ RequestInv([s EXCEPT !.pc = pc], [p EXCEPT !.fee = fee], g)
           /\ RequestInv([s EXCEPT !.pc = pc], [p EXCEPT !.feeToken = fee], g)
  BY DEF RequestInv, Before

\* WalletFunding.Refund gives back what the session consumed.
LEMMA RefundWalletInv ==
    ASSUME NEW s, NEW p, NEW f, Before(s, p, f), s.gor = "fund", s.src = "wallet"
    PROVE  /\ RequestInv([s EXCEPT !.gor = "extra"], Moved(p, s, -s.consumed), f)
           /\ RequestInv([s EXCEPT !.gor = "extra"], p, f + 1)
  BY DEF RequestInv, Before, Moved

\* SubscriptionFunding.Refund, every outcome of an attempt.
LEMMA RefundSubscriptionInv ==
    ASSUME NEW s, NEW p, NEW f, Before(s, p, f), s.gor = "fund", s.src = "subscription"
    PROVE  /\ RequestInv([s EXCEPT !.gor = "extra"], Moved(p, s, -s.consumed), f)
           /\ RequestInv([s EXCEPT !.gor = "extra"], Moved(p, s, -s.consumed), f + 1)
           /\ RequestInv([s EXCEPT !.gor = "extra"], p, f + 1)
           /\ RequestInv([s EXCEPT !.tries = @ + 1], Moved(p, s, -s.consumed), f + 1)
           /\ RequestInv([s EXCEPT !.tries = @ + 1], p, f + 1)
  BY DEF RequestInv, Before, Moved

\* The refund of what Reserve added to a subscription.
LEMMA RefundExtraInv ==
    ASSUME NEW s, NEW p, NEW f, Before(s, p, f), s.gor = "extra"
    PROVE  /\ s.src = "subscription" =>
                RequestInv([s EXCEPT !.gor = "token"], Moved(p, s, -s.extra), f)
           /\ s.src # "subscription" \/ s.extra = 0 =>
                RequestInv([s EXCEPT !.gor = "token"], p, f)
           /\ RequestInv([s EXCEPT !.gor = "token"], p, f + 1)
  BY DEF RequestInv, Before, Moved

\* The refund of the token ends the goroutine with nothing held.
LEMMA RefundTokenInv ==
    ASSUME NEW s, NEW p, NEW f, Before(s, p, f), s.gor = "token"
    PROVE  /\ ~Playground(s) =>
                RequestInv([s EXCEPT !.gor = "end"],
                           [p EXCEPT !.token = @ + (-s.tokenConsumed)], f)
           /\ Playground(s) \/ s.tokenConsumed = 0 =>
                RequestInv([s EXCEPT !.gor = "end"], p, f)
           /\ RequestInv([s EXCEPT !.gor = "end"], p, f + 1)
  BY DEF RequestInv, Before

HIDE DEF Session, Paid, SessionShape, EarlyShape, LateShape, Exact, Backed,
         FundingHeld, TokenHeld, TokenDue, Early, Reserving, Playground, Sources

-----------------------------------------------------------------------------
(* From the transitions to the actions.                                    *)

\* r steps to session t, charges p and error count f.
StepTo(r, t, p, f) ==
    /\ sess' = [sess EXCEPT ![r] = t]
    /\ paid' = [paid EXCEPT ![r] = p]
    /\ faults' = [faults EXCEPT ![r] = f]

RowsOK ==
    wallet' \in Int /\ remain' \in Int /\ used' \in Nat /\ subActive' \in BOOLEAN

\* A step that moves one request to a state of the invariant, and keeps the rows
\* well typed, preserves the invariant of all requests.
LEMMA StepPreserves ==
    ASSUME BillingInv, NEW r \in Requests, NEW t \in Session, NEW p \in Paid,
           NEW f \in Nat, StepTo(r, t, p, f), RequestInv(t, p, f), RowsOK, SubWithinTotal'
    PROVE  BillingInv'
  <1>1. TypeOK'
    BY DEF BillingInv, TypeOK, StepTo, RowsOK
  <1>2. ASSUME NEW q \in Requests PROVE RequestInv(sess'[q], paid'[q], faults'[q])
    BY DEF BillingInv, TypeOK, StepTo
  <1> QED BY <1>1, <1>2 DEF BillingInv

\* The typed pre-state of r.
LEMMA BeforeStep ==
    ASSUME BillingInv, NEW r \in Requests
    PROVE  /\ Before(sess[r], paid[r], faults[r])
           /\ sess[r] \in Session /\ paid[r] \in Paid /\ faults[r] \in Nat
           /\ sess[r].pre \in Nat /\ sess[r].goal \in Nat /\ sess[r].eff \in Nat
           /\ sess[r].consumed \in Nat /\ sess[r].extra \in Nat
           /\ sess[r].tokenConsumed \in Nat /\ sess[r].tries \in Nat
           /\ sess[r].est \in Nat /\ sess[r].tokenSeen \in Int
           /\ sess[r].src \in Sources /\ sess[r].next \in Sources
           /\ sess[r].kind \in AllKinds /\ sess[r].pref \in AllPrefs
  <1>1. sess[r] \in Session /\ paid[r] \in Paid /\ faults[r] \in Nat
    BY DEF BillingInv, TypeOK
  <1>2. RequestInv(sess[r], paid[r], faults[r])
    BY DEF BillingInv
  <1>3. Before(sess[r], paid[r], faults[r])
    BY <1>1, <1>2 DEF Before
  <1> QED BY <1>1, <1>3 DEF Session

\* Charges stay well typed when an amount is moved.
LEMMA MovedType ==
    ASSUME NEW s, NEW p \in Paid, NEW d \in Int
    PROVE  /\ Moved(p, s, d) \in Paid
           /\ [p EXCEPT !.token = @ + d] \in Paid
           /\ \A n \in Nat : [p EXCEPT !.fee = n] \in Paid /\ [p EXCEPT !.feeToken = n] \in Paid
  BY DEF Moved, Paid

\* An error is counted for the request that met it.
LEMMA DatabaseEffect ==
    ASSUME BillingInv, NEW r \in Requests, NEW ok \in BOOLEAN, Database(r, ok)
    PROVE  faults' = [faults EXCEPT ![r] = IF ok THEN faults[r] ELSE faults[r] + 1]
  BY DEF Database, BillingInv, TypeOK

\* Writing a component back unchanged changes nothing.
LEMMA FaultsUnchanged ==
    ASSUME BillingInv, NEW r \in Requests
    PROVE  /\ faults = [faults EXCEPT ![r] = faults[r]]
           /\ paid = [paid EXCEPT ![r] = paid[r]]
           /\ sess = [sess EXCEPT ![r] = sess[r]]
  BY DEF BillingInv, TypeOK

\* A movement of the token is recorded in the request's charge.
LEMMA MoveTokenEffect ==
    ASSUME BillingInv, NEW r \in Requests, NEW d \in Int, MoveToken(r, d)
    PROVE  /\ remain' \in Int
           /\ paid' = [paid EXCEPT ![r] = [paid[r] EXCEPT !.token = @ + d]]
  BY DEF MoveToken, BillingInv, TypeOK

\* A movement of the funding source keeps a limited subscription within its
\* total: every debit is checked, every credit lowers the used amount.
LEMMA MoveFundingEffect ==
    ASSUME BillingInv, NEW r \in Requests, NEW d \in Int, MoveFunding(r, d),
           sess[r].src = "wallet" \/ DeltaFits(d) \/ d <= 0
    PROVE  /\ wallet' \in Int /\ used' \in Nat
           /\ paid' = [paid EXCEPT ![r] = Moved(paid[r], sess[r], d)]
           /\ SubWithinTotal'
  <1>1. CASE sess[r].src = "wallet"
    BY <1>1 DEF MoveFunding, Moved, BillingInv, TypeOK, SubWithinTotal
  <1>2. CASE sess[r].src # "wallet"
    <2>1. used' = NewUsed(d) /\ wallet' = wallet
      BY <1>2 DEF MoveFunding
    <2>2. paid' = [paid EXCEPT ![r] = Moved(paid[r], sess[r], d)]
      BY <1>2 DEF MoveFunding, Moved
    <2>3. used' \in Nat /\ SubWithinTotal'
      BY <1>2, <2>1, BillingAssumption DEF NewUsed, DeltaFits, BillingInv, TypeOK, SubWithinTotal
    <2> QED BY <2>1, <2>2, <2>3 DEF BillingInv, TypeOK
  <1> QED BY <1>1, <1>2

\* Begin preserves the invariant.
LEMMA BeginStep ==
    ASSUME BillingInv, NEW r \in Requests, Begin(r) PROVE BillingInv'
  <1>1. PICK k \in Kinds, pr \in Prefs, q \in Quotas : Begin(r)!(k, pr, q)
    BY DEF Begin
  <1> DEFINE n == IF k = "playground" THEN 0 ELSE remain
             t == [IdleSession EXCEPT !.pc = "begin", !.kind = k, !.pref = pr,
                                      !.est = q, !.tokenSeen = n]
  <1>2. k \in AllKinds /\ pr \in AllPrefs /\ q \in Nat /\ n \in Int
    BY BillingAssumption DEF BillingInv, TypeOK
  <1>3. t \in Session
    BY <1>2, IdleType, Names DEF Session
  <1>4. RequestInv(t, paid[r], faults[r])
    BY <1>1, <1>2, BeforeStep, BeginInv DEF At
  <1>5. StepTo(r, t, paid[r], faults[r])
    BY <1>1, FaultsUnchanged DEF StepTo, Goto
  <1>6. RowsOK /\ SubWithinTotal'
    BY <1>1 DEF RowsOK, BillingInv, TypeOK, SubWithinTotal
  <1> QED BY <1>3, <1>4, <1>5, <1>6, BeforeStep, StepPreserves

\* Steps that only read the rows: r moves to session t.
LEMMA ReadOnlyStep ==
    ASSUME BillingInv, NEW r \in Requests, NEW t \in Session, Goto(r, t),
           NEW g \in Nat, faults' = [faults EXCEPT ![r] = g], RequestInv(t, paid[r], g),
           UNCHANGED <<wallet, remain, used, subActive, paid>>
    PROVE  BillingInv'
  <1>1. StepTo(r, t, paid[r], g)
    BY FaultsUnchanged DEF StepTo, Goto
  <1>2. RowsOK /\ SubWithinTotal'
    BY DEF RowsOK, BillingInv, TypeOK, SubWithinTotal
  <1> QED BY <1>1, <1>2, BeforeStep, StepPreserves

\* Steps that move d from the funding source.
LEMMA FundingStep ==
    ASSUME BillingInv, NEW r \in Requests, NEW t \in Session, Goto(r, t),
           NEW g \in Nat, faults' = [faults EXCEPT ![r] = g],
           NEW d \in Int, MoveFunding(r, d),
           sess[r].src = "wallet" \/ DeltaFits(d) \/ d <= 0,
           RequestInv(t, Moved(paid[r], sess[r], d), g),
           UNCHANGED <<remain, subActive>>
    PROVE  BillingInv'
  <1>1. /\ Moved(paid[r], sess[r], d) \in Paid
        /\ paid' = [paid EXCEPT ![r] = Moved(paid[r], sess[r], d)]
        /\ wallet' \in Int /\ used' \in Nat /\ SubWithinTotal'
    BY BeforeStep, MovedType, MoveFundingEffect
  <1>2. StepTo(r, t, Moved(paid[r], sess[r], d), g)
    BY <1>1 DEF StepTo, Goto
  <1>3. RowsOK
    BY <1>1 DEF RowsOK, BillingInv, TypeOK
  <1> QED BY <1>1, <1>2, <1>3, StepPreserves

\* Steps that move d from the token.
LEMMA TokenStep ==
    ASSUME BillingInv, NEW r \in Requests, NEW t \in Session, Goto(r, t),
           NEW g \in Nat, faults' = [faults EXCEPT ![r] = g],
           NEW d \in Int, MoveToken(r, d),
           RequestInv(t, [paid[r] EXCEPT !.token = @ + d], g),
           UNCHANGED <<wallet, used, subActive>>
    PROVE  BillingInv'
  <1> DEFINE p == [paid[r] EXCEPT !.token = @ + d]
  <1>1. p \in Paid /\ paid' = [paid EXCEPT ![r] = p] /\ remain' \in Int
    BY BeforeStep, MovedType, MoveTokenEffect
  <1>2. StepTo(r, t, p, g)
    BY <1>1 DEF StepTo, Goto
  <1>3. RowsOK /\ SubWithinTotal'
    BY <1>1 DEF RowsOK, BillingInv, TypeOK, SubWithinTotal
  <1> QED BY <1>1, <1>2, <1>3, StepPreserves

\* SelectFunding preserves the invariant: it only chooses the first attempt.
LEMMA SelectFundingStep ==
    ASSUME BillingInv, NEW r \in Requests, NEW ok \in BOOLEAN, SelectFunding(r, ok)
    PROVE  BillingInv'
  <1> DEFINE s == sess[r]
             g == IF ok THEN faults[r] ELSE faults[r] + 1
  <1>1. Before(s, paid[r], faults[r]) /\ s \in Session /\ faults[r] \in Nat
        /\ paid[r] \in Paid /\ s.pref \in AllPrefs
    BY BeforeStep
  <1>2. faults' = [faults EXCEPT ![r] = g] /\ g \in Nat /\ (g = 0 => faults[r] = 0)
    BY <1>1, DatabaseEffect, FaultsUnchanged DEF SelectFunding
  <1>3. Clean(s, paid[r], faults[r])
    BY <1>1, CleanBefore DEF SelectFunding, At, Before
  <1>4. PICK t \in Session : Goto(r, t) /\ RequestInv(t, paid[r], g)
    <2>1. /\ Reject(s) \in Session /\ RequestInv(Reject(s), paid[r], g)
      BY <1>1, <1>2, <1>3, RejectType, CleanReject
    <2>2. ASSUME NEW src \in {"wallet", "subscription"}, NEW next \in Sources
          PROVE  /\ Attempt(s, src, next) \in Session
                 /\ RequestInv(Attempt(s, src, next), paid[r], g)
      BY <1>1, <1>2, <1>3, AttemptType, CleanAttempt
    <2>3. \/ Goto(r, Reject(s))
          \/ \E src \in {"wallet", "subscription"}, next \in Sources :
                Goto(r, Attempt(s, src, next))
      BY <1>1, Names DEF SelectFunding, AllPrefs
    <2> QED BY <2>1, <2>2, <2>3
  <1> QED BY <1>2, <1>4, ReadOnlyStep DEF SelectFunding

\* TryWallet preserves the invariant, whichever way the wallet read goes.
LEMMA TryWalletStep ==
    ASSUME BillingInv, NEW r \in Requests, NEW ok \in BOOLEAN, TryWallet(r, ok)
    PROVE  BillingInv'
  <1> DEFINE s == sess[r]
             g == IF ok THEN faults[r] ELSE faults[r] + 1
             e == IF ShouldTrust(s) THEN 0 ELSE s.est
             pc == IF e > 0 THEN "checkToken" ELSE "fund"
             t == [s EXCEPT !.trusted = ShouldTrust(s), !.eff = e, !.pc = pc]
  <1>1. Before(s, paid[r], faults[r]) /\ s \in Session /\ faults[r] \in Nat
        /\ paid[r] \in Paid /\ s.est \in Nat /\ s.pc = "wallet"
    BY BeforeStep DEF TryWallet, At
  <1>2. faults' = [faults EXCEPT ![r] = g] /\ g \in Nat /\ (g = 0 => faults[r] = 0)
    BY <1>1, DatabaseEffect DEF TryWallet
  <1>3. Clean(s, paid[r], faults[r])
    BY <1>1, CleanBefore DEF Before
  <1>4. CASE ~ok
    <2>1. RequestInv(Reject(s), paid[r], g) /\ Reject(s) \in Session
      BY <1>1, <1>2, <1>3, CleanReject, RejectType
    <2>2. Goto(r, Reject(s))
      BY <1>4 DEF TryWallet
    <2> QED BY <1>2, <2>1, <2>2, ReadOnlyStep DEF TryWallet
  <1>5. CASE ok /\ (wallet <= 0 \/ wallet < s.est)
    <2>1. RequestInv(Fallback(s), paid[r], g) /\ Fallback(s) \in Session
      BY <1>1, <1>2, <1>3, CleanFallback, FallbackType
    <2>2. Goto(r, Fallback(s))
      BY <1>5 DEF TryWallet
    <2> QED BY <1>2, <2>1, <2>2, ReadOnlyStep DEF TryWallet
  <1>6. CASE ok /\ ~(wallet <= 0 \/ wallet < s.est)
    <2>1. Goto(r, t)
      BY <1>6 DEF TryWallet
    <2>2. ShouldTrust(s) \in BOOLEAN /\ e \in Nat
      BY <1>1 DEF ShouldTrust
    <2>3. t \in Session
      <3> HIDE DEF e
      <3> QED BY <1>1, <2>2, Names DEF Session
    <2>4. RequestInv(t, paid[r], g)
      BY <1>1, <1>6, <2>2, TryWalletInv
    <2> QED BY <1>2, <2>1, <2>3, <2>4, ReadOnlyStep DEF TryWallet
  <1> QED BY <1>4, <1>5, <1>6

\* CheckToken preserves the invariant.
LEMMA CheckTokenStep ==
    ASSUME BillingInv, NEW r \in Requests, NEW ok \in BOOLEAN, CheckToken(r, ok)
    PROVE  BillingInv'
  <1> DEFINE s == sess[r]
             g == IF ok THEN faults[r] ELSE faults[r] + 1
  <1>1. Before(s, paid[r], faults[r]) /\ s \in Session /\ faults[r] \in Nat
        /\ paid[r] \in Paid /\ s.eff \in Nat /\ s.pc = "checkToken"
    BY BeforeStep DEF CheckToken, At
  <1>2. faults' = [faults EXCEPT ![r] = g] /\ g \in Nat /\ (g = 0 => faults[r] = 0)
    BY <1>1, DatabaseEffect, FaultsUnchanged DEF CheckToken
  <1>3. Clean(s, paid[r], faults[r])
    BY <1>1, CleanBefore DEF Before
  <1>4. CASE Playground(s)
    <2> DEFINE t == [s EXCEPT !.pc = "fund", !.tokenConsumed = s.eff]
    <2>1. Goto(r, t) /\ ok
      BY <1>4 DEF CheckToken
    <2>2. t \in Session
      BY <1>1, Names DEF Session
    <2>3. RequestInv(t, paid[r], g)
      BY <1>1, <1>4, <2>1, CheckTokenInv
    <2> QED BY <1>2, <2>1, <2>2, <2>3, ReadOnlyStep DEF CheckToken
  <1>5. CASE ~Playground(s) /\ (~ok \/ (~TokenUnlimited /\ remain < s.eff))
    <2>1. RequestInv(Reject(s), paid[r], g) /\ Reject(s) \in Session
      BY <1>1, <1>2, <1>3, CleanReject, RejectType
    <2>2. Goto(r, Reject(s))
      BY <1>5 DEF CheckToken
    <2> QED BY <1>2, <2>1, <2>2, ReadOnlyStep DEF CheckToken
  <1>6. CASE ~Playground(s) /\ ~(~ok \/ (~TokenUnlimited /\ remain < s.eff))
    <2> DEFINE t == [s EXCEPT !.pc = "debitToken"]
    <2>1. Goto(r, t)
      BY <1>6 DEF CheckToken
    <2>2. t \in Session
      BY <1>1, Names DEF Session
    <2>3. RequestInv(t, paid[r], g)
      BY <1>1, <1>6, CheckTokenInv
    <2> QED BY <1>2, <2>1, <2>2, <2>3, ReadOnlyStep DEF CheckToken
  <1> QED BY <1>4, <1>5, <1>6

\* DebitToken preserves the invariant.
LEMMA DebitTokenStep ==
    ASSUME BillingInv, NEW r \in Requests, NEW ok \in BOOLEAN, DebitToken(r, ok)
    PROVE  BillingInv'
  <1> DEFINE s == sess[r]
             g == IF ok THEN faults[r] ELSE faults[r] + 1
             t == [s EXCEPT !.pc = "fund", !.tokenConsumed = s.eff]
  <1>1. Before(s, paid[r], faults[r]) /\ s \in Session /\ faults[r] \in Nat
        /\ paid[r] \in Paid /\ s.eff \in Nat /\ s.pc = "debitToken"
    BY BeforeStep DEF DebitToken, At
  <1>2. faults' = [faults EXCEPT ![r] = g] /\ g \in Nat /\ (g = 0 => faults[r] = 0)
    BY <1>1, DatabaseEffect DEF DebitToken
  <1>3. CASE ok
    <2>1. Goto(r, t) /\ MoveToken(r, s.eff)
      BY <1>3 DEF DebitToken
    <2>2. t \in Session
      BY <1>1, Names DEF Session
    <2>3. RequestInv(t, [paid[r] EXCEPT !.token = @ + s.eff], g)
      BY <1>1, <1>3, DebitTokenInv
    <2>4. s.eff \in Int
      BY <1>1
    <2> QED BY <1>2, <2>1, <2>2, <2>3, <2>4, TokenStep DEF DebitToken
  <1>4. CASE ~ok
    <2>1. RequestInv(Reject(s), paid[r], g) /\ Reject(s) \in Session
      BY <1>1, <1>2, CleanBefore, CleanReject, RejectType DEF Before
    <2> QED BY <1>2, <1>4, <2>1, ReadOnlyStep DEF DebitToken
  <1> QED BY <1>3, <1>4

\* A refused funding pre-consume rolls the token back first, if it was
\* debited, and else falls back at once.
LEMMA FundingRefusedInv ==
    ASSUME NEW s, NEW p, NEW f, Before(s, p, f), s.pc = "fund", NEW b \in BOOLEAN,
           NEW g \in Nat, g = 0 => f = 0
    PROVE  FundingRefused(s, b) \in Session /\ RequestInv(FundingRefused(s, b), p, g)
  <1> DEFINE n == IF b THEN s.next ELSE "none"
             u == [s EXCEPT !.next = n]
  <1>1. s \in Session /\ n \in Sources /\ p \in Paid /\ f \in Nat
    BY Names DEF Before, Session
  <1>2. u \in Session
    BY <1>1 DEF Session
  <1>3. FundingRefused(s, b) = IF s.tokenConsumed > 0 /\ ~Playground(s)
                               THEN [u EXCEPT !.pc = "undoToken"] ELSE Fallback(u)
    <2>1. u = IF b THEN s ELSE [s EXCEPT !.next = "none"]
      BY <1>1 DEF Session
    <2> QED BY <2>1 DEF FundingRefused
  <1>4. CASE s.tokenConsumed > 0 /\ ~Playground(s)
    <2>1. [u EXCEPT !.pc = "undoToken"] = [s EXCEPT !.next = n, !.pc = "undoToken"]
      BY <1>1 DEF Session
    <2>2. [u EXCEPT !.pc = "undoToken"] \in Session
      BY <1>2, Names DEF Session
    <2>3. RequestInv([s EXCEPT !.next = n, !.pc = "undoToken"], p, g)
      BY <1>1, <1>4, RefusedInv
    <2> QED BY <1>3, <1>4, <2>1, <2>2, <2>3
  <1>5. CASE ~(s.tokenConsumed > 0 /\ ~Playground(s))
    <2>1. s.tokenConsumed = 0 \/ Playground(s)
      BY <1>1, <1>5 DEF Session
    <2>2. Clean(s, p, f)
      BY <1>1, <2>1, CleanBefore DEF Before
    <2>3. Clean(u, p, f)
      BY <1>1, <2>2 DEF Clean, Session, Playground
    <2> QED BY <1>1, <1>2, <1>3, <1>5, <2>3, CleanFallback, FallbackType
  <1> QED BY <1>4, <1>5

\* PreConsumeFunding preserves the invariant, accepted or refused.
LEMMA PreConsumeFundingStep ==
    ASSUME BillingInv, NEW r \in Requests, NEW ok \in BOOLEAN, PreConsumeFunding(r, ok)
    PROVE  BillingInv'
  <1> DEFINE s == sess[r]
             g == IF ok THEN faults[r] ELSE faults[r] + 1
             t == [s EXCEPT !.pc = "send", !.pre = s.eff, !.consumed = s.eff]
             accepted == ok /\ (s.src = "subscription" => SubscriptionCovers(s.eff))
  <1>1. Before(s, paid[r], faults[r]) /\ s \in Session /\ faults[r] \in Nat
        /\ paid[r] \in Paid /\ s.pc = "fund" /\ s.eff \in Nat /\ s.src \in Sources
    BY BeforeStep DEF PreConsumeFunding, At
  <1>2. faults' = [faults EXCEPT ![r] = g] /\ g \in Nat /\ (g = 0 => faults[r] = 0)
    BY <1>1, DatabaseEffect, FaultsUnchanged DEF PreConsumeFunding
  <1>3. CASE accepted
    <2>1. Goto(r, t) /\ MoveFunding(r, s.eff)
      BY <1>3 DEF PreConsumeFunding
    <2>2. t \in Session
      BY <1>1, Names DEF Session
    <2>3. RequestInv(t, Moved(paid[r], s, s.eff), g)
      BY <1>1, <1>3, FundInv
    <2>4. s.src \in {"wallet", "subscription"}
      BY <1>1 DEF Before, RequestInv, SessionShape, EarlyShape, Early
    <2>5. s.eff \in Int /\ (s.src = "wallet" \/ DeltaFits(s.eff))
      BY <1>1, <1>3, <2>4, BillingAssumption
         DEF SubscriptionCovers, DeltaFits, NewUsed, BillingInv, TypeOK
    <2> QED BY <1>2, <2>1, <2>2, <2>3, <2>5, FundingStep DEF PreConsumeFunding
  <1>4. CASE ~accepted
    <2>1. PICK b \in BOOLEAN : Goto(r, FundingRefused(s, b))
      BY <1>4 DEF PreConsumeFunding
    <2>2. /\ FundingRefused(s, b) \in Session
          /\ RequestInv(FundingRefused(s, b), paid[r], g)
      BY <1>1, <1>2, FundingRefusedInv
    <2>3. UNCHANGED <<wallet, remain, used, subActive, paid>>
      BY <1>4 DEF PreConsumeFunding
    <2> QED BY <1>2, <2>1, <2>2, <2>3, ReadOnlyStep
  <1> QED BY <1>3, <1>4

\* UndoToken preserves the invariant, also when the roll-back fails.
LEMMA UndoTokenStep ==
    ASSUME BillingInv, NEW r \in Requests, NEW ok \in BOOLEAN, UndoToken(r, ok)
    PROVE  BillingInv'
  <1> DEFINE s == sess[r]
             g == IF ok THEN faults[r] ELSE faults[r] + 1
             u == [s EXCEPT !.tokenConsumed = 0]
             p == [paid[r] EXCEPT !.token = @ + (-s.tokenConsumed)]
  <1>1. Before(s, paid[r], faults[r]) /\ s \in Session /\ faults[r] \in Nat
        /\ paid[r] \in Paid /\ s.pc = "undoToken" /\ s.tokenConsumed \in Nat
    BY BeforeStep DEF UndoToken, At
  <1>2. faults' = [faults EXCEPT ![r] = g] /\ g \in Nat /\ (g = 0 => faults[r] = 0)
    BY <1>1, DatabaseEffect, FaultsUnchanged DEF UndoToken
  <1>3. u \in Session /\ Fallback(u) \in Session /\ -s.tokenConsumed \in Int
    <2>1. u \in Session
      BY <1>1 DEF Session
    <2> QED BY <1>1, <2>1, FallbackType
  <1>4. CASE ok
    <2>1. p \in Paid
      BY <1>1, <1>3, MovedType
    <2>2. RequestInv(Fallback(u), p, g)
      BY <1>1, <1>2, <1>3, <1>4, <2>1, UndoTokenClean, CleanFallback
    <2>3. Goto(r, Fallback(u)) /\ MoveToken(r, -s.tokenConsumed)
      BY <1>4 DEF UndoToken
    <2> QED BY <1>2, <1>3, <2>2, <2>3, TokenStep DEF UndoToken
  <1>5. CASE ~ok
    <2>1. RequestInv(Fallback(u), paid[r], g)
      BY <1>1, <1>2, <1>3, <1>5, UndoTokenClean, CleanFallback
    <2>2. Goto(r, Fallback(u)) /\ UNCHANGED <<wallet, remain, used, subActive, paid>>
      BY <1>5 DEF UndoToken
    <2> QED BY <1>2, <1>3, <2>1, <2>2, ReadOnlyStep
  <1> QED BY <1>4, <1>5

\* From the funding pre-consume on the session has a funding source, and in
\* the middle of a Reserve its target exceeds the hold.
LEMMA LateFacts ==
    ASSUME NEW s, NEW p, NEW f, Before(s, p, f)
    PROVE  /\ s.pc \in {"send", "reserveCheck", "reserveDebit", "undoReserve", "settle",
                         "settleToken", "fee", "feeToken"} => s.src \in {"wallet", "subscription"}
           /\ s.pc \in {"reserveCheck", "reserveDebit", "undoReserve"} => s.goal > s.pre
  BY DEF Before, RequestInv, SessionShape, EarlyShape, LateShape, Early, Reserving

\* Reserve preserves the invariant.
LEMMA ReserveStepInv ==
    ASSUME BillingInv, NEW r \in Requests, NEW ok \in BOOLEAN, Reserve(r, ok)
    PROVE  BillingInv'
  <1> DEFINE s == sess[r]
             g == IF ok THEN faults[r] ELSE faults[r] + 1
  <1>1. PICK target \in Quotas : Reserve(r, ok)!(target)
    BY DEF Reserve
  <1> DEFINE d == target - s.pre
             c == IF s.src = "wallet" THEN s.consumed + d ELSE s.consumed
             u == [s EXCEPT !.goal = target,
                            !.consumed = IF s.src = "wallet" THEN @ + d ELSE @]
             t == IF Playground(u) THEN Reserved(u) ELSE [u EXCEPT !.pc = "reserveCheck"]
  <1>2. Before(s, paid[r], faults[r]) /\ s \in Session /\ faults[r] \in Nat
        /\ paid[r] \in Paid /\ s.pc = "send" /\ s.pre \in Nat /\ s.consumed \in Nat
    BY <1>1, BeforeStep DEF At
  <1>3. faults' = [faults EXCEPT ![r] = g] /\ g \in Nat /\ (g = 0 => faults[r] = 0)
    BY <1>1, <1>2, DatabaseEffect
  <1>4. target \in Nat /\ d \in Nat /\ d > 0 /\ c \in Nat /\ d \in Int /\ target > s.pre
    BY <1>1, <1>2, BillingAssumption
  <1>5. CASE FundingAccepts(s, d, ok)
    <2>1. MoveFunding(r, d) /\ Goto(r, t) /\ ok
      BY <1>1, <1>5 DEF FundingAccepts
    <2>2. u \in Session /\ u.goal = target /\ u.pre = s.pre /\ u.kind = s.kind
      <3>1. u = [s EXCEPT !.goal = target, !.consumed = c]
        OBVIOUS
      <3> HIDE DEF c, d, u
      <3> QED BY <1>2, <1>4, <3>1 DEF Session
    <2>3. t \in Session
      <3> HIDE DEF u
      <3>1. Reserved(u) \in Session
        BY <1>4, <2>2, ReservedType
      <3>2. [u EXCEPT !.pc = "reserveCheck"] \in Session
        BY <2>2, Names DEF Session
      <3> QED BY <3>1, <3>2
    <2>4. RequestInv(t, Moved(paid[r], s, d), g)
      BY <1>2, <1>4, <2>1, <2>2, ReserveInv DEF Playground
    <2>5. s.src = "wallet" \/ DeltaFits(d)
      BY <1>2, <1>5, LateFacts DEF FundingAccepts
    <2>6. UNCHANGED <<remain, subActive>>
      BY <1>1
    <2> QED BY <1>3, <1>4, <2>1, <2>3, <2>4, <2>5, <2>6, FundingStep
  <1>6. CASE ~FundingAccepts(s, d, ok)
    <2>1. UNCHANGED <<wallet, remain, used, subActive, paid>> /\ Goto(r, s)
      BY <1>1, <1>6, FaultsUnchanged DEF Goto
    <2>2. RequestInv(s, paid[r], g)
      BY <1>2, <1>3 DEF Before, RequestInv
    <2> QED BY <1>2, <1>3, <2>1, <2>2, ReadOnlyStep
  <1> QED BY <1>5, <1>6

\* ReserveCheckToken preserves the invariant.
LEMMA ReserveCheckTokenStep ==
    ASSUME BillingInv, NEW r \in Requests, NEW ok \in BOOLEAN, ReserveCheckToken(r, ok)
    PROVE  BillingInv'
  <1> DEFINE s == sess[r]
             g == IF ok THEN faults[r] ELSE faults[r] + 1
             pc == IF ~ok \/ (~TokenUnlimited /\ remain < s.goal - s.pre)
                   THEN "undoReserve" ELSE "reserveDebit"
             t == [s EXCEPT !.pc = pc]
  <1>1. Before(s, paid[r], faults[r]) /\ s \in Session /\ faults[r] \in Nat
        /\ paid[r] \in Paid /\ s.pc = "reserveCheck"
    BY BeforeStep DEF ReserveCheckToken, At
  <1>2. faults' = [faults EXCEPT ![r] = g] /\ g \in Nat /\ (g = 0 => faults[r] = 0)
    BY <1>1, DatabaseEffect, FaultsUnchanged DEF ReserveCheckToken
  <1>3. Goto(r, t)
    BY DEF ReserveCheckToken
  <1>4. pc \in {"undoReserve", "reserveDebit"}
    OBVIOUS
  <1> HIDE DEF pc
  <1>5. t \in Session
    BY <1>1, <1>4, Names DEF Session
  <1>6. RequestInv(t, paid[r], g)
    BY <1>1, <1>2, <1>4, ReserveCheckInv
  <1> QED BY <1>2, <1>3, <1>5, <1>6, ReadOnlyStep DEF ReserveCheckToken

\* ReserveDebitToken preserves the invariant.
LEMMA ReserveDebitTokenStep ==
    ASSUME BillingInv, NEW r \in Requests, NEW ok \in BOOLEAN, ReserveDebitToken(r, ok)
    PROVE  BillingInv'
  <1> DEFINE s == sess[r]
             g == IF ok THEN faults[r] ELSE faults[r] + 1
  <1>1. Before(s, paid[r], faults[r]) /\ s \in Session /\ faults[r] \in Nat
        /\ paid[r] \in Paid /\ s.pc = "reserveDebit" /\ s.pre \in Nat /\ s.goal \in Nat
    BY BeforeStep DEF ReserveDebitToken, At
  <1>2. faults' = [faults EXCEPT ![r] = g] /\ g \in Nat /\ (g = 0 => faults[r] = 0)
    BY <1>1, DatabaseEffect, FaultsUnchanged DEF ReserveDebitToken
  <1>3. CASE ok
    <2>1. Goto(r, Reserved(s)) /\ MoveToken(r, s.goal - s.pre)
      BY <1>3 DEF ReserveDebitToken
    <2>2. Reserved(s) \in Session /\ s.goal - s.pre \in Int
      BY <1>1, LateFacts, ReservedType
    <2>3. RequestInv(Reserved(s), [paid[r] EXCEPT !.token = @ + (s.goal - s.pre)], g)
      BY <1>1, <1>3, ReserveDebitInv
    <2> QED BY <1>2, <2>1, <2>2, <2>3, TokenStep DEF ReserveDebitToken
  <1>4. CASE ~ok
    <2> DEFINE t == [s EXCEPT !.pc = "undoReserve"]
    <2>1. Goto(r, t) /\ UNCHANGED <<wallet, remain, used, subActive, paid>>
      BY <1>4 DEF ReserveDebitToken
    <2>2. t \in Session
      BY <1>1, Names DEF Session
    <2>3. RequestInv(t, paid[r], g)
      BY <1>1, <1>4, ReserveDebitInv
    <2> QED BY <1>2, <2>1, <2>2, <2>3, ReadOnlyStep
  <1> QED BY <1>3, <1>4

\* A credit always fits.
LEMMA CreditFits ==
    ASSUME BillingInv, NEW d \in Int, d <= 0 PROVE DeltaFits(d)
  BY BillingAssumption DEF BillingInv, TypeOK, SubWithinTotal, DeltaFits, NewUsed

\* UndoReserve preserves the invariant, also when the roll-back fails.
LEMMA UndoReserveStep ==
    ASSUME BillingInv, NEW r \in Requests, NEW ok \in BOOLEAN, UndoReserve(r, ok)
    PROVE  BillingInv'
  <1> DEFINE s == sess[r]
             g == IF ok THEN faults[r] ELSE faults[r] + 1
             d == s.goal - s.pre
             c == IF s.src = "wallet" THEN s.consumed - d ELSE s.consumed
             t == [s EXCEPT !.pc = "send",
                            !.consumed = IF s.src = "wallet" THEN @ - d ELSE @]
  <1>1. Before(s, paid[r], faults[r]) /\ s \in Session /\ faults[r] \in Nat
        /\ paid[r] \in Paid /\ s.pc = "undoReserve" /\ s.pre \in Nat /\ s.goal \in Nat /\ s.consumed \in Nat /\ s.goal > s.pre
    BY BeforeStep, LateFacts DEF UndoReserve, At
  <1>2. faults' = [faults EXCEPT ![r] = g] /\ g \in Nat /\ (g = 0 => faults[r] = 0)
    BY <1>1, DatabaseEffect, FaultsUnchanged DEF UndoReserve
  <1>3. -d \in Int /\ -d <= 0
    BY <1>1
  <1>4. CASE ok
    <2>1. FundingAccepts(s, -d, ok)
      BY <1>3, <1>4, CreditFits DEF FundingAccepts
    <2>2. Goto(r, t) /\ MoveFunding(r, -d)
      BY <2>1 DEF UndoReserve
    <2>3. c \in Nat
      BY <1>1 DEF Before, RequestInv, SessionShape, LateShape, Early, Reserving, EarlyShape
    <2>4. t \in Session
      <3>1. t = [s EXCEPT !.pc = "send", !.consumed = c]
        OBVIOUS
      <3> HIDE DEF c, d, t
      <3> QED BY <1>1, <2>3, <3>1, Names DEF Session
    <2>5. RequestInv(t, Moved(paid[r], s, -d), g)
      BY <1>1, <1>4, UndoReserveInv
    <2> QED BY <1>2, <1>3, <2>2, <2>4, <2>5, FundingStep DEF UndoReserve
  <1>5. CASE ~ok
    <2> DEFINE v == [s EXCEPT !.pc = "send"]
    <2>1. Goto(r, v) /\ UNCHANGED <<wallet, remain, used, subActive, paid>>
      BY <1>5 DEF UndoReserve, FundingAccepts
    <2>2. v \in Session
      BY <1>1, Names DEF Session
    <2>3. RequestInv(v, paid[r], g)
      BY <1>1, <1>5, UndoReserveInv
    <2> QED BY <1>2, <2>1, <2>2, <2>3, ReadOnlyStep
  <1> QED BY <1>4, <1>5

\* Respond preserves the invariant.
LEMMA RespondStep ==
    ASSUME BillingInv, NEW r \in Requests, Respond(r) PROVE BillingInv'
  <1> DEFINE s == sess[r]
  <1>1. PICK actual \in Quotas : Respond(r)!(actual)
    BY DEF Respond
  <1> DEFINE t == [s EXCEPT !.goal = actual, !.out = "ok", !.settled = TRUE, !.pc = "done"]
             v == [s EXCEPT !.goal = actual, !.out = "ok", !.pc = "settle"]
  <1>2. Before(s, paid[r], faults[r]) /\ s \in Session /\ faults[r] \in Nat
        /\ s.pc = "send" /\ actual \in Nat
    BY <1>1, BeforeStep, BillingAssumption DEF At
  <1>3. t \in Session /\ v \in Session
    BY <1>2, Names DEF Session
  <1>4. faults' = [faults EXCEPT ![r] = faults[r]]
        /\ UNCHANGED <<wallet, remain, used, subActive, paid>>
    BY <1>1, FaultsUnchanged
  <1>5. CASE actual = s.pre
    <2>1. Goto(r, t)
      BY <1>1, <1>2, <1>5 DEF Goto, Session
    <2>2. RequestInv(t, paid[r], faults[r])
      BY <1>2, <1>5, RespondInv
    <2> QED BY <1>2, <1>3, <1>4, <2>1, <2>2, ReadOnlyStep
  <1>6. CASE actual # s.pre
    <2>1. Goto(r, v)
      BY <1>1, <1>2, <1>6 DEF Goto, Session
    <2>2. RequestInv(v, paid[r], faults[r])
      BY <1>2, RespondInv
    <2> QED BY <1>2, <1>3, <1>4, <2>1, <2>2, ReadOnlyStep
  <1> QED BY <1>5, <1>6

\* SettleFunding preserves the invariant, accepted or refused.
LEMMA SettleFundingStep ==
    ASSUME BillingInv, NEW r \in Requests, NEW ok \in BOOLEAN, SettleFunding(r, ok)
    PROVE  BillingInv'
  <1> DEFINE s == sess[r]
             g == IF ok THEN faults[r] ELSE faults[r] + 1
             d == s.goal - s.pre
  <1>1. Before(s, paid[r], faults[r]) /\ s \in Session /\ faults[r] \in Nat
        /\ paid[r] \in Paid /\ s.pc = "settle" /\ s.pre \in Nat /\ s.goal \in Nat
    BY BeforeStep DEF SettleFunding, At
  <1>2. faults' = [faults EXCEPT ![r] = g] /\ g \in Nat /\ (g = 0 => faults[r] = 0)
    BY <1>1, DatabaseEffect, FaultsUnchanged DEF SettleFunding
  <1>3. d \in Int /\ s.src \in {"wallet", "subscription"}
    BY <1>1, LateFacts
  <1>4. CASE FundingAccepts(s, d, ok)
    <2> DEFINE a == [s EXCEPT !.fundingSettled = TRUE, !.settled = TRUE, !.pc = "done"]
               b == [s EXCEPT !.fundingSettled = TRUE, !.pc = "settleToken"]
    <2>1. MoveFunding(r, d) /\ Goto(r, IF Playground(s) THEN a ELSE b)
          /\ UNCHANGED <<remain, subActive>>
      BY <1>4 DEF SettleFunding
    <2>2. a \in Session /\ b \in Session
      BY <1>1, Names DEF Session
    <2>3. /\ Playground(s) => RequestInv(a, Moved(paid[r], s, d), g)
          /\ ~Playground(s) => RequestInv(b, Moved(paid[r], s, d), g)
      BY <1>1, <1>4, SettleFundingInv DEF FundingAccepts
    <2>4. s.src = "wallet" \/ DeltaFits(d)
      BY <1>3, <1>4 DEF FundingAccepts
    <2>5. CASE Playground(s)
      BY <1>2, <1>3, <2>1, <2>2, <2>3, <2>4, <2>5, FundingStep
    <2>6. CASE ~Playground(s)
      BY <1>2, <1>3, <2>1, <2>2, <2>3, <2>4, <2>6, FundingStep
    <2> QED BY <2>5, <2>6
  <1>5. CASE ~FundingAccepts(s, d, ok)
    <2> DEFINE v == [s EXCEPT !.pc = "done"]
    <2>1. Goto(r, v) /\ UNCHANGED <<wallet, remain, used, subActive, paid>>
      BY <1>5 DEF SettleFunding
    <2>2. v \in Session
      BY <1>1, Names DEF Session
    <2>3. g = 0 => faults[r] = 0 /\ s.src = "subscription" /\ s.goal > s.pre
      <3>1. g = 0 => ok
        BY <1>1
      <3>2. ok => s.src = "subscription" /\ ~DeltaFits(d)
        BY <1>5 DEF FundingAccepts
      <3>3. ~DeltaFits(d) => s.goal > s.pre
        BY <1>1, <1>3, CreditFits
      <3> QED BY <1>2, <3>1, <3>2, <3>3
    <2>4. RequestInv(v, paid[r], g)
      BY <1>1, <1>2, <2>3, SettleRefusedInv
    <2> QED BY <1>2, <2>1, <2>2, <2>4, ReadOnlyStep
  <1> QED BY <1>4, <1>5

\* SettleToken preserves the invariant, also when the token update fails.
LEMMA SettleTokenStep ==
    ASSUME BillingInv, NEW r \in Requests, NEW ok \in BOOLEAN, SettleToken(r, ok)
    PROVE  BillingInv'
  <1> DEFINE s == sess[r]
             g == IF ok THEN faults[r] ELSE faults[r] + 1
             t == [s EXCEPT !.settled = TRUE, !.pc = "done"]
  <1>1. Before(s, paid[r], faults[r]) /\ s \in Session /\ faults[r] \in Nat
        /\ paid[r] \in Paid /\ s.pc = "settleToken" /\ s.pre \in Nat /\ s.goal \in Nat
    BY BeforeStep DEF SettleToken, At
  <1>2. faults' = [faults EXCEPT ![r] = g] /\ g \in Nat /\ (g = 0 => faults[r] = 0)
    BY <1>1, DatabaseEffect, FaultsUnchanged DEF SettleToken
  <1>3. t \in Session /\ Goto(r, t) /\ s.goal - s.pre \in Int
    <2>1. t \in Session
      BY <1>1, Names DEF Session
    <2>2. Goto(r, t)
      BY DEF SettleToken
    <2> QED BY <1>1, <2>1, <2>2
  <1>4. CASE ok
    <2>1. MoveToken(r, s.goal - s.pre) /\ UNCHANGED <<wallet, used, subActive>>
      BY <1>4 DEF SettleToken
    <2>2. RequestInv(t, [paid[r] EXCEPT !.token = @ + (s.goal - s.pre)], g)
      BY <1>1, <1>4, SettleTokenInv
    <2> QED BY <1>2, <1>3, <2>1, <2>2, TokenStep
  <1>5. CASE ~ok
    <2>1. UNCHANGED <<wallet, remain, used, subActive, paid>>
      BY <1>5 DEF SettleToken
    <2>2. RequestInv(t, paid[r], g)
      BY <1>1, <1>5, SettleTokenInv
    <2> QED BY <1>2, <1>3, <2>1, <2>2, ReadOnlyStep
  <1> QED BY <1>4, <1>5

\* Fail preserves the invariant: it starts the refund when one is needed.
LEMMA FailStep ==
    ASSUME BillingInv, NEW r \in Requests, Fail(r) PROVE BillingInv'
  <1> DEFINE s == sess[r]
  <1>1. PICK violation \in BOOLEAN : Fail(r)!(violation)
    BY DEF Fail
  <1> DEFINE pc == IF violation THEN "fee" ELSE "done"
             u == [s EXCEPT !.out = "failed"]
             t == [s EXCEPT !.out = "failed", !.refunded = TRUE, !.gor = "fund", !.pc = pc]
             v == [s EXCEPT !.out = "failed", !.pc = pc]
  <1>2. Before(s, paid[r], faults[r]) /\ s \in Session /\ faults[r] \in Nat /\ s.pc = "send"
    BY <1>1, BeforeStep DEF At
  <1>3. faults' = [faults EXCEPT ![r] = faults[r]]
        /\ UNCHANGED <<wallet, remain, used, subActive, paid>>
    BY <1>1, FaultsUnchanged
  <1>4. NeedsRefund(u) <=> NeedsRefund(s)
    BY <1>2 DEF NeedsRefund, Session
  <1>5. pc \in {"fee", "done"}
    OBVIOUS
  <1>6. Goto(r, IF NeedsRefund(u) THEN t ELSE v)
    <2>1. Goto(r, [(IF NeedsRefund(u) THEN [u EXCEPT !.refunded = TRUE, !.gor = "fund"]
                    ELSE u) EXCEPT !.pc = pc])
      BY <1>1 DEF StartRefund
    <2>2. [[u EXCEPT !.refunded = TRUE, !.gor = "fund"] EXCEPT !.pc = pc] = t
      BY <1>2 DEF Session
    <2>3. [u EXCEPT !.pc = pc] = v
      BY <1>2 DEF Session
    <2> HIDE DEF t, v, u, pc
    <2> QED BY <2>1, <2>2, <2>3
  <1> HIDE DEF pc
  <1>7. t \in Session /\ v \in Session
    BY <1>2, <1>5, Names DEF Session
  <1>8. CASE NeedsRefund(s)
    <2>1. RequestInv(t, paid[r], faults[r])
      BY <1>2, <1>5, <1>8, FailInv
    <2> QED BY <1>2, <1>3, <1>4, <1>6, <1>7, <1>8, <2>1, ReadOnlyStep
  <1>9. CASE ~NeedsRefund(s)
    <2>1. RequestInv(v, paid[r], faults[r])
      BY <1>2, <1>5, <1>9, FailInv
    <2> QED BY <1>2, <1>3, <1>4, <1>6, <1>7, <1>9, <2>1, ReadOnlyStep
  <1> QED BY <1>8, <1>9

\* Panic preserves the invariant.
LEMMA PanicStep ==
    ASSUME BillingInv, NEW r \in Requests, Panic(r) PROVE BillingInv'
  <1> DEFINE s == sess[r]
             t == [s EXCEPT !.pc = "done", !.out = "panic"]
  <1>1. Before(s, paid[r], faults[r]) /\ s \in Session /\ faults[r] \in Nat /\ s.pc = "send"
    BY BeforeStep DEF Panic, At
  <1>2. Goto(r, t) /\ faults' = [faults EXCEPT ![r] = faults[r]]
        /\ UNCHANGED <<wallet, remain, used, subActive, paid>>
    BY FaultsUnchanged DEF Panic
  <1>3. t \in Session
    BY <1>1, Names DEF Session
  <1>4. RequestInv(t, paid[r], faults[r])
    BY <1>1, PanicInv
  <1> QED BY <1>1, <1>2, <1>3, <1>4, ReadOnlyStep

\* LatePanic preserves the invariant: a session that was settled stays as it is.
LEMMA LatePanicStep ==
    ASSUME BillingInv, NEW r \in Requests, LatePanic(r) PROVE BillingInv'
  <1> DEFINE s == sess[r]
             t == [s EXCEPT !.out = "panic", !.refunded = TRUE, !.gor = "fund"]
  <1>1. Before(s, paid[r], faults[r]) /\ s \in Session /\ faults[r] \in Nat
        /\ s.pc = "done" /\ s.out = "ok"
    BY BeforeStep DEF LatePanic, At
  <1>2. faults' = [faults EXCEPT ![r] = faults[r]]
        /\ UNCHANGED <<wallet, remain, used, subActive, paid>>
    BY FaultsUnchanged DEF LatePanic
  <1>3. CASE NeedsRefund(s)
    <2>1. StartRefund([s EXCEPT !.out = "panic"]) = t
      BY <1>1 DEF StartRefund, Session
    <2>2. Goto(r, t)
      BY <1>3, <2>1 DEF LatePanic
    <2>3. t \in Session
      BY <1>1, Names DEF Session
    <2>4. RequestInv(t, paid[r], faults[r])
      BY <1>1, <1>3, LatePanicInv
    <2> QED BY <1>1, <1>2, <2>2, <2>3, <2>4, ReadOnlyStep
  <1>4. CASE ~NeedsRefund(s)
    <2>1. Goto(r, s)
      BY <1>4 DEF LatePanic
    <2>2. RequestInv(s, paid[r], faults[r])
      BY DEF BillingInv
    <2> QED BY <1>1, <1>2, <2>1, <2>2, ReadOnlyStep
  <1> QED BY <1>3, <1>4

\* ChargeFee preserves the invariant, beside the refund goroutine.
LEMMA ChargeFeeStep ==
    ASSUME BillingInv, NEW r \in Requests, NEW ok \in BOOLEAN, ChargeFee(r, ok)
    PROVE  BillingInv'
  <1> DEFINE s == sess[r]
             g == IF ok THEN faults[r] ELSE faults[r] + 1
             pc == IF Playground(s) THEN "done" ELSE "feeToken"
             t == [s EXCEPT !.pc = pc]
             p == [paid[r] EXCEPT !.fee = Fee]
  <1>1. Before(s, paid[r], faults[r]) /\ s \in Session /\ faults[r] \in Nat
        /\ paid[r] \in Paid /\ s.pc = "fee"
    BY BeforeStep DEF ChargeFee, At
  <1>2. faults' = [faults EXCEPT ![r] = g] /\ g \in Nat /\ (g = 0 => faults[r] = 0)
    BY <1>1, DatabaseEffect, FaultsUnchanged DEF ChargeFee
  <1>3. CASE FundingAccepts(s, Fee, ok)
    <2>1. /\ Goto(r, t) /\ UNCHANGED <<remain, subActive>>
          /\ paid' = [paid EXCEPT ![r] = p]
          /\ \/ s.src = "wallet" /\ wallet' = wallet - Fee /\ used' = used
             \/ s.src # "wallet" /\ wallet' = wallet /\ used' = NewUsed(Fee)
      BY <1>3 DEF ChargeFee
    <2>2. s.src = "wallet" \/ DeltaFits(Fee)
      BY <1>1, <1>3, LateFacts DEF FundingAccepts
    <2>3. p \in Paid
      BY <1>1, BillingAssumption, MovedType
    <2>4. RowsOK /\ SubWithinTotal'
      BY <2>1, <2>2, BillingAssumption
         DEF RowsOK, SubWithinTotal, BillingInv, TypeOK, NewUsed, DeltaFits
    <2>5. pc \in {"feeToken", "done"} /\ (Playground(s) => pc = "done")
      OBVIOUS
    <2> HIDE DEF pc
    <2>6. t \in Session
      BY <1>1, <2>5, Names DEF Session
    <2>7. RequestInv(t, p, g)
      BY <1>1, <1>2, <2>5, BillingAssumption, FeeInv
    <2>8. StepTo(r, t, p, g)
      BY <1>2, <2>1 DEF StepTo, Goto
    <2> QED BY <1>2, <2>3, <2>4, <2>6, <2>7, <2>8, StepPreserves
  <1>4. CASE ~FundingAccepts(s, Fee, ok)
    <2> DEFINE v == [s EXCEPT !.pc = "done"]
    <2>1. Goto(r, v) /\ UNCHANGED <<wallet, remain, used, subActive, paid>>
      BY <1>4 DEF ChargeFee
    <2>2. v \in Session
      BY <1>1, Names DEF Session
    <2>3. RequestInv(v, paid[r], g)
      BY <1>1, <1>2, <1>4, BillingAssumption, FeeInv
    <2> QED BY <1>2, <2>1, <2>2, <2>3, ReadOnlyStep
  <1> QED BY <1>3, <1>4

\* ChargeFeeToken preserves the invariant.
LEMMA ChargeFeeTokenStep ==
    ASSUME BillingInv, NEW r \in Requests, NEW ok \in BOOLEAN, ChargeFeeToken(r, ok)
    PROVE  BillingInv'
  <1> DEFINE s == sess[r]
             g == IF ok THEN faults[r] ELSE faults[r] + 1
             t == [s EXCEPT !.pc = "done"]
             p == [paid[r] EXCEPT !.feeToken = Fee]
  <1>1. Before(s, paid[r], faults[r]) /\ s \in Session /\ faults[r] \in Nat
        /\ paid[r] \in Paid /\ s.pc = "feeToken"
    BY BeforeStep DEF ChargeFeeToken, At
  <1>2. faults' = [faults EXCEPT ![r] = g] /\ g \in Nat /\ (g = 0 => faults[r] = 0)
    BY <1>1, DatabaseEffect, FaultsUnchanged DEF ChargeFeeToken
  <1>3. t \in Session /\ Goto(r, t)
    <2>1. t \in Session
      BY <1>1, Names DEF Session
    <2>2. Goto(r, t)
      BY DEF ChargeFeeToken
    <2> QED BY <1>1, <2>1, <2>2
  <1>4. RequestInv(t, paid[r], g) /\ RequestInv(t, p, g)
    BY <1>1, <1>2, BillingAssumption, FeeInv
  <1>5. CASE ok
    <2>1. remain' = remain - Fee /\ paid' = [paid EXCEPT ![r] = p]
          /\ UNCHANGED <<wallet, used, subActive>>
      BY <1>5 DEF ChargeFeeToken
    <2>2. p \in Paid
      BY <1>1, BillingAssumption, MovedType
    <2>3. RowsOK /\ SubWithinTotal'
      BY <2>1, BillingAssumption DEF RowsOK, SubWithinTotal, BillingInv, TypeOK
    <2>4. StepTo(r, t, p, g)
      BY <1>2, <1>3, <2>1 DEF StepTo, Goto
    <2> QED BY <1>2, <1>3, <1>4, <2>2, <2>3, <2>4, StepPreserves
  <1>6. CASE ~ok
    <2>1. UNCHANGED <<wallet, remain, used, subActive, paid>>
      BY <1>6 DEF ChargeFeeToken
    <2> QED BY <1>2, <1>3, <1>4, <2>1, ReadOnlyStep
  <1> QED BY <1>5, <1>6

\* RefundWallet preserves the invariant.
LEMMA RefundWalletStep ==
    ASSUME BillingInv, NEW r \in Requests, NEW ok \in BOOLEAN, RefundWallet(r, ok)
    PROVE  BillingInv'
  <1> DEFINE s == sess[r]
             g == IF ok THEN faults[r] ELSE faults[r] + 1
             t == [s EXCEPT !.gor = "extra"]
  <1>1. Before(s, paid[r], faults[r]) /\ s \in Session /\ faults[r] \in Nat
        /\ paid[r] \in Paid /\ s.gor = "fund" /\ s.src = "wallet" /\ s.consumed \in Nat
    BY BeforeStep DEF RefundWallet
  <1>2. faults' = [faults EXCEPT ![r] = g] /\ g \in Nat /\ (g = 0 => faults[r] = 0)
    BY <1>1, DatabaseEffect, FaultsUnchanged DEF RefundWallet
  <1>3. t \in Session /\ Goto(r, t) /\ -s.consumed \in Int
    <2>1. t \in Session
      BY <1>1, Names DEF Session
    <2>2. Goto(r, t)
      BY DEF RefundWallet
    <2> QED BY <1>1, <2>1, <2>2
  <1>4. CASE ok
    <2>1. MoveFunding(r, -s.consumed) /\ UNCHANGED <<remain, subActive>>
      BY <1>4 DEF RefundWallet
    <2>2. RequestInv(t, Moved(paid[r], s, -s.consumed), g)
      BY <1>1, <1>4, RefundWalletInv
    <2> QED BY <1>1, <1>2, <1>3, <2>1, <2>2, FundingStep
  <1>5. CASE ~ok
    <2>1. UNCHANGED <<wallet, remain, used, subActive, paid>>
      BY <1>5 DEF RefundWallet
    <2>2. RequestInv(t, paid[r], g)
      BY <1>1, <1>5, RefundWalletInv
    <2> QED BY <1>2, <1>3, <2>1, <2>2, ReadOnlyStep
  <1> QED BY <1>4, <1>5

\* RefundSubscription preserves the invariant for every attempt.
LEMMA RefundSubscriptionStep ==
    ASSUME BillingInv, NEW r \in Requests, NEW ok \in BOOLEAN, NEW credited \in BOOLEAN,
           RefundSubscription(r, ok, credited)
    PROVE  BillingInv'
  <1> DEFINE s == sess[r]
             g == IF ok THEN faults[r] ELSE faults[r] + 1
             a == [s EXCEPT !.gor = "extra"]
             b == [s EXCEPT !.tries = @ + 1]
  <1>1. Before(s, paid[r], faults[r]) /\ s \in Session /\ faults[r] \in Nat
        /\ paid[r] \in Paid /\ s.gor = "fund" /\ s.src = "subscription" /\ s.consumed \in Nat /\ s.tries \in Nat
    BY BeforeStep DEF RefundSubscription
  <1>2. faults' = [faults EXCEPT ![r] = g] /\ g \in Nat /\ (g = 0 => faults[r] = 0)
    BY <1>1, DatabaseEffect, FaultsUnchanged DEF RefundSubscription
  <1>3. a \in Session /\ b \in Session /\ -s.consumed \in Int /\ -s.consumed <= 0
    BY <1>1, Names DEF Session
  <1>4. PICK t \in {a, b} : Goto(r, t) /\ (ok => t = a)
    BY DEF RefundSubscription
  <1>5. CASE credited
    <2>1. MoveFunding(r, -s.consumed) /\ UNCHANGED <<remain, subActive>>
      BY <1>5 DEF RefundSubscription
    <2>2. RequestInv(t, Moved(paid[r], s, -s.consumed), g)
      <3> HIDE DEF a, b
      <3>1. ok => RequestInv(a, Moved(paid[r], s, -s.consumed), g)
        BY <1>1, RefundSubscriptionInv DEF a
      <3>2. ~ok => RequestInv(a, Moved(paid[r], s, -s.consumed), g)
                   /\ RequestInv(b, Moved(paid[r], s, -s.consumed), g)
        BY <1>1, RefundSubscriptionInv DEF a, b
      <3> QED BY <1>4, <3>1, <3>2
    <2> QED BY <1>2, <1>3, <1>4, <2>1, <2>2, FundingStep
  <1>6. CASE ~credited
    <2>1. UNCHANGED <<wallet, remain, used, subActive, paid>> /\ ~ok
      BY <1>6 DEF RefundSubscription
    <2>2. RequestInv(a, paid[r], g) /\ RequestInv(b, paid[r], g)
      BY <1>1, <2>1, RefundSubscriptionInv
    <2> QED BY <1>2, <1>3, <1>4, <2>1, <2>2, ReadOnlyStep
  <1> QED BY <1>5, <1>6

\* RefundExtra preserves the invariant.
LEMMA RefundExtraStep ==
    ASSUME BillingInv, NEW r \in Requests, NEW ok \in BOOLEAN, RefundExtra(r, ok)
    PROVE  BillingInv'
  <1> DEFINE s == sess[r]
             g == IF ok THEN faults[r] ELSE faults[r] + 1
             due == s.src = "subscription" /\ s.extra > 0
             t == [s EXCEPT !.gor = "token"]
  <1>1. Before(s, paid[r], faults[r]) /\ s \in Session /\ faults[r] \in Nat
        /\ paid[r] \in Paid /\ s.gor = "extra" /\ s.extra \in Nat
    BY BeforeStep DEF RefundExtra
  <1>2. faults' = [faults EXCEPT ![r] = g] /\ g \in Nat /\ (g = 0 => faults[r] = 0)
    BY <1>1, DatabaseEffect, FaultsUnchanged DEF RefundExtra
  <1>3. t \in Session /\ Goto(r, t) /\ -s.extra \in Int /\ -s.extra <= 0
    <2>1. t \in Session
      BY <1>1, Names DEF Session
    <2>2. Goto(r, t)
      BY DEF RefundExtra
    <2> QED BY <1>1, <2>1, <2>2
  <1>4. CASE due /\ ok
    <2>1. FundingAccepts(s, -s.extra, ok)
      BY <1>3, <1>4, CreditFits DEF FundingAccepts
    <2>2. MoveFunding(r, -s.extra) /\ UNCHANGED <<remain, subActive>>
      BY <1>4, <2>1 DEF RefundExtra
    <2>3. RequestInv(t, Moved(paid[r], s, -s.extra), g)
      BY <1>1, <1>4, RefundExtraInv
    <2> QED BY <1>2, <1>3, <2>2, <2>3, FundingStep
  <1>5. CASE ~(due /\ ok)
    <2>1. UNCHANGED <<wallet, remain, used, subActive, paid>>
      BY <1>5 DEF RefundExtra, FundingAccepts
    <2>2. ok => s.src # "subscription" \/ s.extra = 0
      BY <1>1, <1>5
    <2>3. RequestInv(t, paid[r], g)
      BY <1>1, <2>2, RefundExtraInv
    <2> QED BY <1>2, <1>3, <2>1, <2>3, ReadOnlyStep
  <1> QED BY <1>4, <1>5

\* RefundToken preserves the invariant.
LEMMA RefundTokenStep ==
    ASSUME BillingInv, NEW r \in Requests, NEW ok \in BOOLEAN, RefundToken(r, ok)
    PROVE  BillingInv'
  <1> DEFINE s == sess[r]
             g == IF ok THEN faults[r] ELSE faults[r] + 1
             due == s.tokenConsumed > 0 /\ ~Playground(s)
             t == [s EXCEPT !.gor = "end"]
  <1>1. Before(s, paid[r], faults[r]) /\ s \in Session /\ faults[r] \in Nat
        /\ paid[r] \in Paid /\ s.gor = "token" /\ s.tokenConsumed \in Nat
    BY BeforeStep DEF RefundToken
  <1>2. faults' = [faults EXCEPT ![r] = g] /\ g \in Nat /\ (g = 0 => faults[r] = 0)
    BY <1>1, DatabaseEffect, FaultsUnchanged DEF RefundToken
  <1>3. t \in Session /\ Goto(r, t) /\ -s.tokenConsumed \in Int
    <2>1. t \in Session
      BY <1>1, Names DEF Session
    <2>2. Goto(r, t)
      BY DEF RefundToken
    <2> QED BY <1>1, <2>1, <2>2
  <1>4. CASE due /\ ok
    <2>1. MoveToken(r, -s.tokenConsumed) /\ UNCHANGED <<wallet, used, subActive>>
      BY <1>4 DEF RefundToken
    <2>2. RequestInv(t, [paid[r] EXCEPT !.token = @ + (-s.tokenConsumed)], g)
      BY <1>1, <1>4, RefundTokenInv
    <2> QED BY <1>2, <1>3, <2>1, <2>2, TokenStep
  <1>5. CASE ~(due /\ ok)
    <2>1. UNCHANGED <<wallet, remain, used, subActive, paid>>
      BY <1>5 DEF RefundToken
    <2>2. ok => Playground(s) \/ s.tokenConsumed = 0
      BY <1>1, <1>5
    <2>3. RequestInv(t, paid[r], g)
      BY <1>1, <2>2, RefundTokenInv
    <2> QED BY <1>2, <1>3, <2>1, <2>3, ReadOnlyStep
  <1> QED BY <1>4, <1>5

-----------------------------------------------------------------------------
(* The theorems.                                                           *)

\* The invariant holds initially.
LEMMA InitInv == Init => BillingInv
  <1> SUFFICES ASSUME Init PROVE BillingInv
    OBVIOUS
  <1>1. TypeOK
    BY IdleType, BillingAssumption DEF Init, TypeOK
  <1>2. SubWithinTotal
    BY BillingAssumption DEF Init, SubWithinTotal
  <1>3. RequestInv(IdleSession, Nothing, 0)
    BY DEF IdleSession, Nothing, RequestInv, SessionShape, EarlyShape, Early, Exact, Backed,
           FundingHeld, TokenHeld, TokenDue, Playground, Reserving
  <1> QED BY <1>1, <1>2, <1>3 DEF BillingInv, Init

\* Every step of every request preserves the invariant.
LEMMA NextInv == BillingInv /\ [Next]_vars => BillingInv'
  <1> SUFFICES ASSUME BillingInv, [Next]_vars PROVE BillingInv'
    OBVIOUS
  <1>1. CASE UNCHANGED vars
    BY <1>1 DEF vars, BillingInv, TypeOK, SubWithinTotal
  <1>2. CASE \E r \in Requests : Environment(r)
    BY <1>2, BeginStep, RespondStep, FailStep, PanicStep, LatePanicStep, ReserveStepInv
       DEF Environment
  <1>3. ASSUME NEW r \in Requests, NEW ok \in BOOLEAN, PreConsumeStep(r, ok) PROVE BillingInv'
    BY <1>3, SelectFundingStep, TryWalletStep, CheckTokenStep, DebitTokenStep,
       PreConsumeFundingStep, UndoTokenStep DEF PreConsumeStep
  <1>4. ASSUME NEW r \in Requests, NEW ok \in BOOLEAN, ReserveStep(r, ok) PROVE BillingInv'
    BY <1>4, ReserveCheckTokenStep, ReserveDebitTokenStep, UndoReserveStep DEF ReserveStep
  <1>5. ASSUME NEW r \in Requests, NEW ok \in BOOLEAN, SettleStep(r, ok) PROVE BillingInv'
    BY <1>5, SettleFundingStep, SettleTokenStep, ChargeFeeStep, ChargeFeeTokenStep DEF SettleStep
  <1>6. ASSUME NEW r \in Requests, NEW ok \in BOOLEAN, RefundStep(r, ok) PROVE BillingInv'
    BY <1>6, RefundWalletStep, RefundSubscriptionStep, RefundExtraStep, RefundTokenStep
       DEF RefundStep
  <1>7. CASE Expire
    BY <1>7 DEF Expire, BillingInv, TypeOK, SubWithinTotal
  <1> QED BY <1>1, <1>2, <1>3, <1>4, <1>5, <1>6, <1>7 DEF Next, Quiesce

\* BillingInv holds in every reachable state, for any number of concurrent
\* requests, any quotas and any pattern of database errors.
THEOREM Inductive == Spec => []BillingInv
  BY InitInv, NextInv, PTL DEF Spec

\* Every session field and every shared row keeps its type; in particular the
\* holds, the extra reserve and the used amount never become negative.
THEOREM TypeCorrect == Spec => []TypeOK
  <1>1. BillingInv => TypeOK
    BY DEF BillingInv
  <1> QED BY <1>1, Inductive, PTL

\* Settle: a settled request without database errors has paid exactly the
\* actual quota, from one funding source and from the token alike.
THEOREM SettlesExactly == Spec => []SettledExactly
  <1>1. BillingInv => SettledExactly
    <2> SUFFICES ASSUME BillingInv, NEW r \in Requests, sess[r].settled, faults[r] = 0
                 PROVE  Holds(r, sess[r].goal)
      BY DEF SettledExactly
    <2>1. Exact(sess[r], paid[r])
      BY DEF BillingInv, RequestInv
    <2> QED BY <2>1 DEF Exact, FundingHeld, TokenHeld, Holds
  <1> QED BY <1>1, Inductive, PTL

\* Refund: once the refund goroutine of a request without database errors has
\* ended, the funding source and the token have everything back.
THEOREM RefundsWhole == Spec => []RefundedWhole
  <1>1. BillingInv => RefundedWhole
    <2> SUFFICES ASSUME BillingInv, NEW r \in Requests, sess[r].gor = "end", faults[r] = 0
                 PROVE  Holds(r, 0)
      BY DEF RefundedWhole
    <2>1. Before(sess[r], paid[r], faults[r])
      BY BeforeStep
    <2> QED BY <2>1
         DEF Before, RequestInv, Exact, FundingHeld, TokenHeld, Holds, TokenDue, SessionShape,
             EarlyShape, LateShape, Session
  <1> QED BY <1>1, Inductive, PTL

\* NewBillingSession: a rejected request without database errors leaves no
\* charge behind, on whichever source it was rejected.
THEOREM RejectsFree == Spec => []RejectedFree
  <1>1. BillingInv => RejectedFree
    <2> SUFFICES ASSUME BillingInv, NEW r \in Requests, sess[r].out = "rejected",
                        faults[r] = 0
                 PROVE  Holds(r, 0)
      BY DEF RejectedFree
    <2>1. Before(sess[r], paid[r], faults[r])
      BY BeforeStep
    <2>2. EarlyShape(sess[r]) /\ Exact(sess[r], paid[r])
      BY <2>1 DEF Before, RequestInv, SessionShape
    <2> QED BY <2>2
         DEF Exact, FundingHeld, TokenHeld, Holds, TokenDue, EarlyShape, Reserving, Playground
  <1> QED BY <1>1, Inductive, PTL

\* A successful request left unsettled without database errors is funded by a
\* subscription that cannot cover its cost, and keeps exactly its hold.
THEOREM UnsettledHolds == Spec => []UnsettledKeepsHold
  <1>1. BillingInv => UnsettledKeepsHold
    <2> SUFFICES ASSUME BillingInv, NEW r \in Requests, sess[r].out = "ok",
                        sess[r].pc = "done", ~sess[r].settled, faults[r] = 0
                 PROVE  /\ sess[r].src = "subscription"
                        /\ sess[r].goal > sess[r].pre
                        /\ Holds(r, sess[r].pre)
      BY DEF UnsettledKeepsHold
    <2>1. Before(sess[r], paid[r], faults[r])
      BY BeforeStep
    <2>2. LateShape(sess[r]) /\ Exact(sess[r], paid[r])
      BY <2>1 DEF Before, RequestInv, SessionShape, Early
    <2>3. sess[r].gor = "none" /\ ~sess[r].fundingSettled
      BY <2>2 DEF LateShape
    <2> QED BY <2>2, <2>3
         DEF Exact, FundingHeld, TokenHeld, Holds, TokenDue, LateShape, Reserving
  <1> QED BY <1>1, Inductive, PTL

\* Whatever database calls fail, no request gets back more than it put in from
\* the wallet or from the token.
THEOREM NoOverRefund == Spec => []NeverOverRefunded
  <1>1. BillingInv => NeverOverRefunded
    <2> SUFFICES ASSUME BillingInv, NEW r \in Requests
                 PROVE  paid[r].wallet >= 0 /\ paid[r].token >= 0
      BY DEF NeverOverRefunded
    <2>1. Before(sess[r], paid[r], faults[r])
      BY BeforeStep
    <2> QED BY <2>1
         DEF Before, RequestInv, Backed, SessionShape, EarlyShape, LateShape, Session, Paid,
             Reserving
  <1> QED BY <1>1, Inductive, PTL

\* No interleaving takes a limited subscription past its total.
THEOREM StaysWithinTotal == Spec => []SubWithinTotal
  <1>1. BillingInv => SubWithinTotal
    BY DEF BillingInv
  <1> QED BY <1>1, Inductive, PTL

-----------------------------------------------------------------------------
(* The refinement of BillingContract.  A step of request r leaves the      *)
(* other requests alone; what it does to r's status follows from the       *)
(* invariant before and after it, from the final price being a quota, and  *)
(* from the fact that an ended request does not move any more, but for its *)
(* violation fee and the late Refund of one that is outside the contract.  *)

\* The price of a request that is answered is the actual quota it reported.
Quoted(s, t) ==
    t.out = "ok" => t.goal \in Quotas \/ (s.out = "ok" /\ t.goal = s.goal)

PriceQuoted == \A r \in Requests : sess[r].out = "ok" => sess[r].goal \in Quotas

\* The outcome and the price stay as they are, or the request is rejected.
Same(s, t) == t.goal = s.goal /\ t.out \in {s.out, "rejected"}

\* A session that keeps its price and outcome has a quoted price.
LEMMA SameQuoted == ASSUME NEW s, NEW t, Same(s, t) PROVE Quoted(s, t)
  BY DEF Same, Quoted

\* Rejecting keeps the price.
LEMMA RejectSame == ASSUME NEW s \in Session PROVE Same(s, Reject(s))
  BY DEF Session, Reject, Same

\* Starting an attempt keeps price and outcome.
LEMMA AttemptSame == ASSUME NEW s \in Session, NEW src, NEW next PROVE Same(s, Attempt(s, src, next))
  BY DEF Session, Attempt, Same

\* Falling back keeps the price.
LEMMA FallbackSame == ASSUME NEW s \in Session PROVE Same(s, Fallback(s))
  BY RejectSame, AttemptSame DEF Fallback

\* A refused funding pre-consume keeps the price.
LEMMA RefusedSame ==
    ASSUME NEW s \in Session, NEW insufficient \in BOOLEAN
    PROVE  Same(s, FundingRefused(s, insufficient))
  <1> DEFINE t == IF insufficient THEN s ELSE [s EXCEPT !.next = "none"]
  <1>1. t \in Session /\ t.goal = s.goal /\ t.out = s.out
    BY Names DEF Session
  <1>2. Same(s, [t EXCEPT !.pc = "undoToken"])
    BY <1>1 DEF Session, Same
  <1>3. Same(t, Fallback(t))
    BY <1>1, FallbackSame
  <1>4. FundingRefused(s, insufficient) = IF s.tokenConsumed > 0 /\ ~Playground(s)
                                          THEN [t EXCEPT !.pc = "undoToken"] ELSE Fallback(t)
    BY DEF FundingRefused
  <1> HIDE DEF t
  <1>5. Same(s, Fallback(t))
    BY <1>1, <1>3 DEF Same
  <1> QED BY <1>2, <1>4, <1>5

\* The request's goroutine is under way, or its refund is.
Busy(s) == s.pc \notin {"done", "fee", "feeToken"} \/ s.gor \in {"fund", "extra", "token"}

\* The hold of r and its place in the contract do not change.
FeeOnly(r) ==
    /\ sess'[r].out = sess[r].out /\ sess'[r].gor = sess[r].gor
    /\ sess'[r].settled = sess[r].settled /\ sess'[r].refunded = sess[r].refunded
    /\ sess[r].out = "failed"
    /\ paid'[r].wallet = paid[r].wallet /\ paid'[r].sub = paid[r].sub
    /\ paid'[r].token = paid[r].token

\* A late Refund takes a request out of the contract that has left it already.
LateOnly(r) ==
    /\ sess[r].out = "ok" /\ sess[r].pc = "done" /\ ~sess[r].settled
    /\ sess'[r].out = "panic"

\* A step of request r.
Moves(r) ==
    /\ \A x \in Requests : x # r => /\ sess'[x] = sess[x] /\ paid'[x] = paid[x]
                                    /\ faults'[x] = faults[x]
    /\ faults'[r] \in Nat /\ faults'[r] >= faults[r]
    /\ Quoted(sess[r], sess'[r])
    /\ Busy(sess[r]) \/ FeeOnly(r) \/ LateOnly(r)

\* What the steps are made of changes r alone.
LEMMA FaultsFrame ==
    ASSUME BillingInv, NEW r \in Requests, NEW ok \in BOOLEAN, Database(r, ok) \/ UNCHANGED faults
    PROVE  /\ \A x \in Requests : x # r => faults'[x] = faults[x]
           /\ faults'[r] \in Nat /\ faults'[r] >= faults[r]
  BY DEF Database, BillingInv, TypeOK

\* A charge changes the books of its own request only.
LEMMA PaidFrame ==
    ASSUME BillingInv, NEW r \in Requests, NEW d,
           \/ UNCHANGED paid
           \/ MoveFunding(r, d)
           \/ MoveToken(r, d)
           \/ paid' = [paid EXCEPT ![r].fee = d]
           \/ paid' = [paid EXCEPT ![r].feeToken = d]
    PROVE  \A x \in Requests : x # r => paid'[x] = paid[x]
  BY DEF MoveFunding, MoveToken, BillingInv, TypeOK

\* Goto changes the session of its own request only.
LEMMA SessFrame ==
    ASSUME BillingInv, NEW r \in Requests, NEW t, Goto(r, t)
    PROVE  sess'[r] = t /\ \A x \in Requests : x # r => sess'[x] = sess[x]
  BY DEF Goto, BillingInv, TypeOK

\* A step of a busy request that goes to t.
LEMMA BusyMoves ==
    ASSUME BillingInv, NEW r \in Requests, NEW ok \in BOOLEAN, NEW d, NEW t,
           Database(r, ok) \/ UNCHANGED faults,
           UNCHANGED paid \/ MoveFunding(r, d) \/ MoveToken(r, d),
           Goto(r, t), Quoted(sess[r], t), Busy(sess[r])
    PROVE  Moves(r)
  BY FaultsFrame, PaidFrame, SessFrame DEF Moves

\* Begin is a step of a busy request.
LEMMA BeginMoves == ASSUME BillingInv, NEW r \in Requests, Begin(r) PROVE Moves(r)
  <1>1. PICK k \in Kinds, pr \in Prefs, q \in Quotas : Begin(r)!(k, pr, q)
    BY DEF Begin
  <1> DEFINE t == [IdleSession EXCEPT !.pc = "begin", !.kind = k, !.pref = pr, !.est = q,
                                      !.tokenSeen = IF k = "playground" THEN 0 ELSE remain]
  <1>2. t.out = "none"
    BY DEF IdleSession
  <1>3. Goto(r, t) /\ UNCHANGED <<faults, paid>> /\ Busy(sess[r])
    BY <1>1 DEF At, Busy
  <1> HIDE DEF t
  <1> QED BY <1>2, <1>3, BusyMoves DEF Quoted

\* So is every step of NewBillingSession, fallbacks and roll-backs included.
LEMMA PreConsumeMoves ==
    ASSUME BillingInv, NEW r \in Requests, NEW ok \in BOOLEAN, PreConsumeStep(r, ok)
    PROVE  Moves(r)
  <1> DEFINE s == sess[r]
  <1>1. s \in Session
    BY BeforeStep
  <1>2. CASE SelectFunding(r, ok)
    <2>1. Database(r, ok) \/ UNCHANGED faults
      BY <1>2 DEF SelectFunding
    <2>2. PICK t : Goto(r, t) /\ Same(s, t)
      <3>1. \/ Goto(r, Reject(s))
            \/ \E src \in {"wallet", "subscription"}, next \in Sources : Goto(r, Attempt(s, src, next))
        BY <1>2, BeforeStep, Names DEF SelectFunding, AllPrefs
      <3> QED BY <1>1, <3>1, RejectSame, AttemptSame
    <2>3. UNCHANGED paid /\ Busy(s)
      BY <1>2 DEF SelectFunding, At, Busy
    <2> QED BY <2>1, <2>2, <2>3, BusyMoves, SameQuoted
  <1>3. CASE TryWallet(r, ok)
    <2>1. Database(r, ok) /\ UNCHANGED paid /\ Busy(s)
      BY <1>3 DEF TryWallet, At, Busy
    <2>2. PICK t : Goto(r, t) /\ Same(s, t)
      <3> DEFINE e == IF ShouldTrust(s) THEN 0 ELSE s.est
                 u == [s EXCEPT !.trusted = ShouldTrust(s), !.eff = e,
                                !.pc = IF e > 0 THEN "checkToken" ELSE "fund"]
      <3>1. Same(s, u)
        BY <1>1 DEF Session, Same
      <3>2. Goto(r, Reject(s)) \/ Goto(r, Fallback(s)) \/ Goto(r, u)
        BY <1>3 DEF TryWallet
      <3> HIDE DEF u
      <3> QED BY <1>1, <3>1, <3>2, RejectSame, FallbackSame
    <2> QED BY <2>1, <2>2, BusyMoves, SameQuoted
  <1>4. CASE CheckToken(r, ok)
    <2>1. (Database(r, ok) \/ UNCHANGED faults) /\ UNCHANGED paid /\ Busy(s)
      BY <1>4 DEF CheckToken, At, Busy
    <2>2. PICK t : Goto(r, t) /\ Same(s, t)
      <3>1. Same(s, [s EXCEPT !.pc = "fund", !.tokenConsumed = s.eff]) /\ Same(s, [s EXCEPT !.pc = "debitToken"])
        BY <1>1 DEF Session, Same
      <3>2. \/ Goto(r, [s EXCEPT !.pc = "fund", !.tokenConsumed = s.eff])
            \/ Goto(r, Reject(s)) \/ Goto(r, [s EXCEPT !.pc = "debitToken"])
        BY <1>4 DEF CheckToken
      <3> QED BY <1>1, <3>1, <3>2, RejectSame
    <2> QED BY <2>1, <2>2, BusyMoves, SameQuoted
  <1>5. CASE DebitToken(r, ok)
    <2>1. Database(r, ok) /\ (UNCHANGED paid \/ MoveToken(r, s.eff)) /\ Busy(s)
      BY <1>5 DEF DebitToken, At, Busy
    <2>2. PICK t : Goto(r, t) /\ Same(s, t)
      <3>1. Same(s, [s EXCEPT !.pc = "fund", !.tokenConsumed = s.eff])
        BY <1>1 DEF Session, Same
      <3>2. Goto(r, [s EXCEPT !.pc = "fund", !.tokenConsumed = s.eff]) \/ Goto(r, Reject(s))
        BY <1>5 DEF DebitToken
      <3> QED BY <1>1, <3>1, <3>2, RejectSame
    <2>3. PICK d : d = s.eff
      OBVIOUS
    <2> QED BY <2>1, <2>2, <2>3, BusyMoves, SameQuoted
  <1>6. CASE PreConsumeFunding(r, ok)
    <2>1. (Database(r, ok) \/ UNCHANGED faults) /\ (UNCHANGED paid \/ MoveFunding(r, s.eff)) /\ Busy(s)
      BY <1>6 DEF PreConsumeFunding, At, Busy
    <2>2. PICK t : Goto(r, t) /\ Same(s, t)
      <3>1. Same(s, [s EXCEPT !.pc = "send", !.pre = s.eff, !.consumed = s.eff])
        BY <1>1 DEF Session, Same
      <3>2. \/ Goto(r, [s EXCEPT !.pc = "send", !.pre = s.eff, !.consumed = s.eff])
            \/ Goto(r, FundingRefused(s, ok)) \/ Goto(r, FundingRefused(s, TRUE))
        BY <1>6 DEF PreConsumeFunding
      <3> QED BY <1>1, <3>1, <3>2, RefusedSame
    <2>3. PICK d : d = s.eff
      OBVIOUS
    <2> QED BY <2>1, <2>2, <2>3, BusyMoves, SameQuoted
  <1>7. CASE UndoToken(r, ok)
    <2>1. Database(r, ok) /\ (UNCHANGED paid \/ MoveToken(r, -s.tokenConsumed)) /\ Busy(s)
      BY <1>7 DEF UndoToken, At, Busy
    <2> DEFINE u == [s EXCEPT !.tokenConsumed = 0]
    <2>2. u \in Session /\ u.goal = s.goal /\ u.out = s.out
      BY <1>1 DEF Session
    <2>3. Goto(r, Fallback(u))
      BY <1>7 DEF UndoToken
    <2> HIDE DEF u
    <2>4. Same(s, Fallback(u))
      BY <2>2, FallbackSame DEF Same
    <2>5. PICK d : d = -s.tokenConsumed
      OBVIOUS
    <2>6. PICK t : t = Fallback(u)
      OBVIOUS
    <2> QED BY <2>1, <2>3, <2>4, <2>5, <2>6, BusyMoves, SameQuoted
  <1> QED BY <1>2, <1>3, <1>4, <1>5, <1>6, <1>7 DEF PreConsumeStep


\* Positions of a busy request.
LEMMA BusyAt ==
    ASSUME NEW r \in Requests,
           \/ At(r, "send") \/ At(r, "reserveCheck") \/ At(r, "reserveDebit") \/ At(r, "undoReserve")
           \/ At(r, "settle") \/ At(r, "settleToken")
           \/ sess[r].gor = "fund" \/ sess[r].gor = "extra" \/ sess[r].gor = "token"
    PROVE  Busy(sess[r])
  BY DEF At, Busy

\* So is a Reserve, also one that is refused.
LEMMA ReserveMoves ==
    ASSUME BillingInv, NEW r \in Requests, NEW ok \in BOOLEAN, Reserve(r, ok)
    PROVE  Moves(r)
  <1> DEFINE s == sess[r]
  <1>1. PICK target \in Quotas : Reserve(r, ok)!(target)
    BY DEF Reserve
  <1>2. s \in Session /\ s.pre \in Nat /\ s.out = "none"
    BY <1>1, BeforeStep DEF At, Before, RequestInv, SessionShape, EarlyShape, LateShape, Early, Reserving
  <1> DEFINE e == target - s.pre
             u == [s EXCEPT !.goal = target,
                            !.consumed = IF s.src = "wallet" THEN @ + e ELSE @]
             v == IF Playground(u) THEN Reserved(u) ELSE [u EXCEPT !.pc = "reserveCheck"]
  <1>3. Database(r, ok) /\ Busy(s)
    BY <1>1, BusyAt
  <1>4. CASE FundingAccepts(s, e, ok)
    <2>1. MoveFunding(r, e) /\ Goto(r, v)
      BY <1>1, <1>4
    <2>2. v.out = "none"
      BY <1>2 DEF Session, Reserved
    <2> HIDE DEF e, v
    <2>3. PICK d : d = e
      OBVIOUS
    <2>4. PICK t : t = v
      OBVIOUS
    <2>5. MoveFunding(r, d) /\ Goto(r, t) /\ Quoted(s, t)
      BY <2>1, <2>2, <2>3, <2>4 DEF Quoted
    <2> QED BY <1>3, <2>5, BusyMoves
  <1>5. CASE ~FundingAccepts(s, e, ok)
    <2>1. UNCHANGED paid /\ UNCHANGED sess
      BY <1>1, <1>5
    <2>2. PICK t : t = s
      OBVIOUS
    <2>3. Goto(r, t) /\ Quoted(s, t)
      BY <2>1, <2>2, FaultsUnchanged DEF Goto, Quoted
    <2> QED BY <1>3, <2>1, <2>3, BusyMoves
  <1> QED BY <1>4, <1>5

\* So are the token's part of a Reserve and its roll-back.
LEMMA ReserveStepMoves ==
    ASSUME BillingInv, NEW r \in Requests, NEW ok \in BOOLEAN, ReserveStep(r, ok)
    PROVE  Moves(r)
  <1> DEFINE s == sess[r]
             e == s.goal - s.pre
  <1>1. s \in Session
    BY BeforeStep
  <1>2. CASE ReserveCheckToken(r, ok)
    <2>1. PICK p : Goto(r, [s EXCEPT !.pc = p])
      BY <1>2 DEF ReserveCheckToken
    <2>2. PICK t : t = [s EXCEPT !.pc = p]
      OBVIOUS
    <2>3. Same(s, t)
      BY <1>1, <2>2 DEF Session, Same
    <2>4. Database(r, ok) /\ UNCHANGED paid /\ Busy(s)
      BY <1>2, BusyAt DEF ReserveCheckToken
    <2> QED BY <2>1, <2>2, <2>3, <2>4, BusyMoves, SameQuoted
  <1>3. CASE ReserveDebitToken(r, ok)
    <2>1. Database(r, ok) /\ (UNCHANGED paid \/ MoveToken(r, e)) /\ Busy(s)
      BY <1>3, BusyAt DEF ReserveDebitToken
    <2>2. PICK t : Goto(r, t) /\ Same(s, t)
      <3>1. Same(s, Reserved(s)) /\ Same(s, [s EXCEPT !.pc = "undoReserve"])
        BY <1>1 DEF Session, Same, Reserved
      <3>2. Goto(r, Reserved(s)) \/ Goto(r, [s EXCEPT !.pc = "undoReserve"])
        BY <1>3 DEF ReserveDebitToken
      <3> QED BY <3>1, <3>2
    <2> HIDE DEF e
    <2>3. PICK d : d = e
      OBVIOUS
    <2> QED BY <2>1, <2>2, <2>3, BusyMoves, SameQuoted
  <1>4. CASE UndoReserve(r, ok)
    <2>1. Database(r, ok) /\ (UNCHANGED paid \/ MoveFunding(r, -e)) /\ Busy(s)
      BY <1>4, BusyAt DEF UndoReserve
    <2>2. PICK t : Goto(r, t) /\ Same(s, t)
      <3> DEFINE v == [s EXCEPT !.pc = "send", !.consumed = IF s.src = "wallet" THEN @ - e ELSE @]
      <3>1. Same(s, v) /\ Same(s, [s EXCEPT !.pc = "send"])
        BY <1>1 DEF Session, Same
      <3>2. Goto(r, v) \/ Goto(r, [s EXCEPT !.pc = "send"])
        BY <1>4 DEF UndoReserve
      <3> HIDE DEF v
      <3> QED BY <3>1, <3>2
    <2> HIDE DEF e
    <2>3. PICK d : d = -e
      OBVIOUS
    <2> QED BY <2>1, <2>2, <2>3, BusyMoves, SameQuoted
  <1> QED BY <1>2, <1>3, <1>4 DEF ReserveStep

\* The answer of the upstream names the price: a quota.
LEMMA RespondMoves == ASSUME BillingInv, NEW r \in Requests, Respond(r) PROVE Moves(r)
  <1> DEFINE s == sess[r]
  <1>1. PICK actual \in Quotas : Respond(r)!(actual)
    BY DEF Respond
  <1> DEFINE u == [s EXCEPT !.goal = actual, !.out = "ok"]
             v == [u EXCEPT !.settled = TRUE, !.pc = "done"]
             w == [u EXCEPT !.pc = "settle"]
  <1>2. s \in Session
    BY BeforeStep
  <1>3. v.goal = actual /\ w.goal = actual
    BY <1>2 DEF Session
  <1>4. Goto(r, v) \/ Goto(r, w)
    BY <1>1
  <1> HIDE DEF v, w
  <1>5. PICK t \in {v, w} : Goto(r, t)
    BY <1>4
  <1>6. Quoted(s, t)
    BY <1>3, <1>5 DEF Quoted
  <1>7. UNCHANGED <<faults, paid>> /\ Busy(s)
    BY <1>1, BusyAt
  <1> QED BY <1>5, <1>6, <1>7, BusyMoves

\* A failure or a panic ends the request's own part.
LEMMA FailMoves == ASSUME BillingInv, NEW r \in Requests, Fail(r) \/ Panic(r) PROVE Moves(r)
  <1> DEFINE s == sess[r]
  <1>1. s \in Session
    BY BeforeStep
  <1>2. CASE Fail(r)
    <2>1. PICK violation \in BOOLEAN : Fail(r)!(violation)
      BY <1>2 DEF Fail
    <2> DEFINE u == [s EXCEPT !.out = "failed"]
               w == IF NeedsRefund(u) THEN StartRefund(u) ELSE u
               v == [w EXCEPT !.pc = IF violation THEN "fee" ELSE "done"]
    <2>2. v.out = "failed"
      BY <1>1 DEF Session, StartRefund
    <2>3. Goto(r, v) /\ UNCHANGED <<faults, paid>> /\ Busy(s)
      BY <2>1, BusyAt
    <2> HIDE DEF v
    <2>4. PICK t : t = v
      OBVIOUS
    <2>5. Goto(r, t) /\ Quoted(s, t)
      BY <2>2, <2>3, <2>4 DEF Quoted
    <2> QED BY <2>3, <2>5, BusyMoves
  <1>3. CASE Panic(r)
    <2> DEFINE v == [s EXCEPT !.pc = "done", !.out = "panic"]
    <2>1. v.out = "panic"
      BY <1>1 DEF Session
    <2>2. Goto(r, v) /\ UNCHANGED <<faults, paid>> /\ Busy(s)
      BY <1>3, BusyAt DEF Panic
    <2> HIDE DEF v
    <2>3. PICK t : t = v
      OBVIOUS
    <2>4. Goto(r, t) /\ Quoted(s, t)
      BY <2>1, <2>2, <2>3 DEF Quoted
    <2> QED BY <2>2, <2>4, BusyMoves
  <1> QED BY <1>2, <1>3

\* A late Refund does nothing, or takes the request out of the contract.
LEMMA LateMoves ==
    ASSUME BillingInv, NEW r \in Requests, LatePanic(r)
    PROVE  UNCHANGED <<used, sess, faults, paid>> \/ Moves(r)
  <1> DEFINE s == sess[r]
             v == StartRefund([s EXCEPT !.out = "panic"])
  <1>1. s \in Session /\ s.out = "ok" /\ s.pc = "done" /\ UNCHANGED <<used, faults, paid>>
    BY BeforeStep DEF LatePanic, At
  <1>2. CASE NeedsRefund(s)
    <2>1. v.out = "panic" /\ ~s.settled
      BY <1>1, <1>2 DEF Session, StartRefund, NeedsRefund
    <2>2. Goto(r, v)
      BY <1>2 DEF LatePanic
    <2> HIDE DEF v
    <2>3. sess'[r] = v /\ \A x \in Requests : x # r => sess'[x] = sess[x]
      BY <2>2, SessFrame
    <2>4. LateOnly(r) /\ Quoted(sess[r], sess'[r])
      BY <1>1, <2>1, <2>3 DEF LateOnly, Quoted
    <2>5. faults[r] \in Nat
      BY BeforeStep
    <2> QED BY <1>1, <2>3, <2>4, <2>5 DEF Moves
  <1>3. CASE ~NeedsRefund(s)
    <2>1. sess' = sess
      BY <1>3 DEF LatePanic, Goto, BillingInv, TypeOK
    <2> QED BY <1>1, <2>1
  <1> QED BY <1>2, <1>3

\* A settlement works on the price that Respond has stored.
LEMMA SettleMoves ==
    ASSUME BillingInv, NEW r \in Requests, NEW ok \in BOOLEAN,
           SettleFunding(r, ok) \/ SettleToken(r, ok)
    PROVE  Moves(r)
  <1> DEFINE s == sess[r]
             e == s.goal - s.pre
             x == [s EXCEPT !.fundingSettled = TRUE, !.settled = TRUE, !.pc = "done"]
             y == [s EXCEPT !.fundingSettled = TRUE, !.pc = "settleToken"]
             z == [s EXCEPT !.settled = TRUE, !.pc = "done"]
  <1>1. s \in Session
    BY BeforeStep
  <1>2. Database(r, ok) /\ (UNCHANGED paid \/ MoveFunding(r, e) \/ MoveToken(r, e)) /\ Busy(s)
    BY BusyAt DEF SettleFunding, SettleToken
  <1>3. Same(s, x) /\ Same(s, y) /\ Same(s, z) /\ Same(s, [s EXCEPT !.pc = "done"])
    BY <1>1 DEF Session, Same
  <1>4. Goto(r, x) \/ Goto(r, y) \/ Goto(r, z) \/ Goto(r, [s EXCEPT !.pc = "done"])
    BY DEF SettleFunding, SettleToken
  <1> HIDE DEF e, x, y, z
  <1>5. PICK t : Goto(r, t) /\ Same(s, t)
    BY <1>3, <1>4
  <1>6. PICK d : d = e
    OBVIOUS
  <1> QED BY <1>2, <1>5, <1>6, BusyMoves, SameQuoted

\* The violation fee touches neither hold nor outcome.
LEMMA FeeMoves ==
    ASSUME BillingInv, NEW r \in Requests, NEW ok \in BOOLEAN,
           ChargeFee(r, ok) \/ ChargeFeeToken(r, ok)
    PROVE  Moves(r)
  <1> DEFINE s == sess[r]
  <1>1. s \in Session /\ paid[r] \in Paid /\ s.out = "failed"
    BY BeforeStep DEF ChargeFee, ChargeFeeToken, At, Before, RequestInv, SessionShape,
                      EarlyShape, LateShape, Early, Reserving
  <1>2. Database(r, ok)
    BY DEF ChargeFee, ChargeFeeToken
  <1>3. PICK p : Goto(r, [s EXCEPT !.pc = p])
    BY DEF ChargeFee, ChargeFeeToken
  <1>4. PICK t : t = [s EXCEPT !.pc = p]
    OBVIOUS
  <1>5. t.out = s.out /\ t.gor = s.gor /\ t.settled = s.settled /\ t.refunded = s.refunded
        /\ Same(s, t)
    BY <1>1, <1>4 DEF Session, Same
  <1>6. sess'[r] = t /\ \A x \in Requests : x # r => sess'[x] = sess[x]
    BY <1>3, <1>4, SessFrame
  <1>7. PICK d : d = Fee
    OBVIOUS
  <1>8. \/ UNCHANGED paid
        \/ paid' = [paid EXCEPT ![r].fee = d]
        \/ paid' = [paid EXCEPT ![r].feeToken = d]
    BY <1>7 DEF ChargeFee, ChargeFeeToken
  <1>9. /\ \A x \in Requests : x # r => paid'[x] = paid[x]
        /\ paid'[r].wallet = paid[r].wallet /\ paid'[r].sub = paid[r].sub
        /\ paid'[r].token = paid[r].token
    BY <1>1, <1>8 DEF BillingInv, TypeOK, Paid
  <1>10. FeeOnly(r)
    BY <1>1, <1>5, <1>6, <1>9 DEF FeeOnly
  <1> QED BY <1>2, <1>5, <1>6, <1>9, <1>10, FaultsFrame, SameQuoted DEF Moves

\* Every step of the refund goroutine is a step of a busy request.
LEMMA RefundMoves ==
    ASSUME BillingInv, NEW r \in Requests, NEW ok \in BOOLEAN, RefundStep(r, ok)
    PROVE  Moves(r)
  <1> DEFINE s == sess[r]
             c == s.consumed
             e == s.extra
             k == s.tokenConsumed
             x == [s EXCEPT !.gor = "extra"]
             y == [s EXCEPT !.gor = "token"]
             z == [s EXCEPT !.gor = "end"]
             w == [s EXCEPT !.tries = @ + 1]
  <1>1. s \in Session
    BY BeforeStep
  <1>2. Busy(s)
    BY BusyAt DEF RefundStep, RefundWallet, RefundSubscription, RefundExtra, RefundToken
  <1>3. Database(r, ok) \/ UNCHANGED faults
    BY DEF RefundStep, RefundWallet, RefundSubscription, RefundExtra, RefundToken
  <1>4. UNCHANGED paid \/ MoveFunding(r, -c) \/ MoveFunding(r, -e) \/ MoveToken(r, -k)
    BY DEF RefundStep, RefundWallet, RefundSubscription, RefundExtra, RefundToken
  <1>5. Same(s, x) /\ Same(s, y) /\ Same(s, z) /\ Same(s, w)
    BY <1>1 DEF Session, Same
  <1>6. Goto(r, x) \/ Goto(r, y) \/ Goto(r, z) \/ Goto(r, w)
    BY DEF RefundStep, RefundWallet, RefundSubscription, RefundExtra, RefundToken
  <1> HIDE DEF c, e, k, x, y, z, w
  <1>7. PICK t : Goto(r, t) /\ Same(s, t)
    BY <1>5, <1>6
  <1>8. PICK d : UNCHANGED paid \/ MoveFunding(r, d) \/ MoveToken(r, d)
    <2>1. PICK a \in {-c, -e, -k} : UNCHANGED paid \/ MoveFunding(r, a) \/ MoveToken(r, a)
      BY <1>4
    <2> QED BY <2>1
  <1> QED BY <1>2, <1>3, <1>7, <1>8, BusyMoves, SameQuoted

\* A step is a step of one request, or changes no request.
LEMMA NextMoves ==
    ASSUME BillingInv, [Next]_vars
    PROVE  UNCHANGED <<sess, faults, paid>> \/ \E r \in Requests : Moves(r)
  <1>1. CASE UNCHANGED vars \/ Expire \/ Quiesce
    BY <1>1 DEF vars, Expire, Quiesce
  <1>2. ASSUME NEW r \in Requests, Environment(r)
        PROVE  UNCHANGED <<sess, faults, paid>> \/ Moves(r)
    BY <1>2, BeginMoves, RespondMoves, FailMoves, LateMoves, ReserveMoves DEF Environment
  <1>3. ASSUME NEW r \in Requests, NEW ok \in BOOLEAN,
               PreConsumeStep(r, ok) \/ ReserveStep(r, ok) \/ SettleStep(r, ok) \/ RefundStep(r, ok)
        PROVE  Moves(r)
    BY <1>3, PreConsumeMoves, ReserveStepMoves, SettleMoves, FeeMoves, RefundMoves DEF SettleStep
  <1> QED BY <1>1, <1>2, <1>3 DEF Next

\* A request that panicked has no steps left but those of its refund.
LEMMA PanicOver ==
    ASSUME BillingInv, NEW r \in Requests, sess[r].out = "panic"
    PROVE  sess[r].pc = "done"
  BY BeforeStep DEF Before, RequestInv, SessionShape, EarlyShape, LateShape, Early, Reserving,
                    Session, PCs

\* It stays outside the contract.
LEMMA PanicStays ==
    ASSUME BillingInv, [Next]_vars, NEW x \in Requests, sess[x].out = "panic"
    PROVE  sess'[x].out = "panic"
  <1>1. sess[x].pc = "done" /\ sess[x] \in Session
    BY PanicOver, BeforeStep
  <1>2. CASE UNCHANGED vars \/ Expire \/ Quiesce
    BY <1>2 DEF vars, Expire, Quiesce
  <1>3. ASSUME NEW r \in Requests, Environment(r) PROVE sess'[x].out = "panic"
    <2>1. r # x
      BY <1>1, <1>3 DEF Environment, Begin, Respond, Fail, Panic, LatePanic, Reserve, At
    <2>2. (\E t : Goto(r, t)) \/ UNCHANGED sess
      BY <1>3 DEF Environment, Begin, Respond, Fail, Panic, LatePanic, Reserve
    <2> QED BY <2>1, <2>2, SessFrame
  <1>4. ASSUME NEW r \in Requests, NEW ok \in BOOLEAN,
               PreConsumeStep(r, ok) \/ ReserveStep(r, ok) \/ SettleStep(r, ok)
        PROVE  sess'[x].out = "panic"
    <2>1. r # x
      BY <1>1, <1>4
         DEF PreConsumeStep, SelectFunding, TryWallet, CheckToken, DebitToken, PreConsumeFunding,
             UndoToken, ReserveStep, ReserveCheckToken, ReserveDebitToken, UndoReserve,
             SettleStep, SettleFunding, SettleToken, ChargeFee, ChargeFeeToken, At
    <2>2. \E t : Goto(r, t)
      BY <1>4
         DEF PreConsumeStep, SelectFunding, TryWallet, CheckToken, DebitToken, PreConsumeFunding,
             UndoToken, ReserveStep, ReserveCheckToken, ReserveDebitToken, UndoReserve,
             SettleStep, SettleFunding, SettleToken, ChargeFee, ChargeFeeToken
    <2> QED BY <2>1, <2>2, SessFrame
  <1>5. ASSUME NEW r \in Requests, NEW ok \in BOOLEAN, RefundStep(r, ok)
        PROVE  sess'[x].out = "panic"
    <2> DEFINE s == sess[r]
    <2>1. PICK g, n : Goto(r, [s EXCEPT !.gor = g]) \/ Goto(r, [s EXCEPT !.tries = n])
      BY <1>5 DEF RefundStep, RefundWallet, RefundSubscription, RefundExtra, RefundToken
    <2>2. /\ [s EXCEPT !.gor = g].out = s.out
          /\ [s EXCEPT !.tries = n].out = s.out
      BY BeforeStep DEF Session
    <2>3. PICK t : Goto(r, t) /\ t.out = s.out
      BY <2>1, <2>2
    <2> QED BY <2>3, SessFrame
  <1> QED BY <1>2, <1>3, <1>4, <1>5 DEF Next

\* Every price is an actual quota: the invariant behind Contract!Charge.
LEMMA PriceStep == ASSUME BillingInv, PriceQuoted, [Next]_vars PROVE PriceQuoted'
  BY NextMoves DEF Moves, Quoted, PriceQuoted

\* Every answered request has a quota as its price.
LEMMA PriceInv == Spec => []PriceQuoted
  <1>1. Init => PriceQuoted
    BY DEF Init, IdleSession, PriceQuoted
  <1>2. BillingInv /\ PriceQuoted /\ [Next]_vars => PriceQuoted'
    BY PriceStep
  <1> QED BY <1>1, <1>2, Inductive, PTL DEF Spec

\* StatusOf and HeldOf of a session s with f errors and charges p.
Shows(s, f) ==
    IF f > 0 \/ s.out = "panic" THEN "exception"
    ELSE IF s.settled THEN "charged"
    ELSE IF s.out = "ok" /\ s.pc = "done" THEN "exception"
    ELSE IF s.out = "rejected" \/ s.gor = "end" THEN "void"
    ELSE IF s.out = "failed" /\ ~s.refunded THEN "void"
    ELSE "open"

HeldBy(p) == [funding |-> p.wallet + p.sub, token |-> p.token]

\* A busy request is open, unless the database failed it or it panicked.
LEMMA BusyOpen ==
    ASSUME NEW s \in Session, NEW p, NEW f \in Nat, RequestInv(s, p, f), Busy(s)
    PROVE  Shows(s, f) = IF f > 0 \/ s.out = "panic" THEN "exception" ELSE "open"
  <1>1. CASE s.pc \in Early \/ s.out = "rejected"
    BY <1>1 DEF RequestInv, SessionShape, EarlyShape, Early, Busy, Shows
  <1>2. CASE ~(s.pc \in Early \/ s.out = "rejected")
    <2>1. LateShape(s) /\ s.pc \notin Early /\ s.out # "rejected"
      BY <1>2 DEF RequestInv, SessionShape
    <2>2. s.pc \in PCs /\ s.gor \in RefundPCs
      BY DEF Session
    <2>3. ~s.settled /\ ~(s.out = "ok" /\ s.pc = "done") /\ s.gor # "end"
          /\ ~(s.out = "failed" /\ ~s.refunded)
      BY <2>1, <2>2 DEF LateShape, Early, Reserving, Busy, PCs, RefundPCs
    <2> QED BY <2>1, <2>3 DEF Shows
  <1> QED BY <1>1, <1>2

\* A charged request holds its price, on its one funding source and on its token.
LEMMA ChargedHolds ==
    ASSUME NEW s \in Session, NEW p \in Paid, NEW f \in Nat, RequestInv(s, p, f),
           Shows(s, f) = "charged"
    PROVE  /\ s.out = "ok"
           /\ HeldBy(p) = [funding |-> s.goal, token |-> IF ~Playground(s) THEN s.goal ELSE 0]
  <1>1. f = 0 /\ s.settled
    BY DEF Shows
  <1>2. LateShape(s)
    BY <1>1 DEF RequestInv, SessionShape, EarlyShape
  <1>3. Exact(s, p)
    BY <1>1 DEF RequestInv
  <1>4. s.out = "ok" /\ s.src \in {"wallet", "subscription"} /\ s.goal \in Nat
    BY <1>1, <1>2 DEF LateShape, Session
  <1>5. p.wallet + p.sub = s.goal /\ p.token = IF ~Playground(s) THEN s.goal ELSE 0
    BY <1>1, <1>3, <1>4 DEF Exact, FundingHeld, TokenHeld, TokenDue
  <1> QED BY <1>4, <1>5 DEF HeldBy

\* A void request holds nothing.
LEMMA VoidHolds ==
    ASSUME NEW s \in Session, NEW p \in Paid, NEW f \in Nat, RequestInv(s, p, f),
           Shows(s, f) = "void"
    PROVE  HeldBy(p) = [funding |-> 0, token |-> 0]
  <1>1. f = 0 /\ ~s.settled
    BY DEF Shows
  <1>2. Exact(s, p)
    BY <1>1 DEF RequestInv
  <1>3. p.wallet = 0 /\ p.sub = 0 /\ p.token = 0
    <2>1. CASE s.pc \in Early \/ s.out = "rejected"
      <3>1. EarlyShape(s)
        BY <2>1 DEF RequestInv, SessionShape
      <3>2. s.out = "rejected" /\ s.pc = "done"
        BY <1>1, <3>1 DEF EarlyShape, Shows
      <3> QED BY <1>1, <1>2, <3>1, <3>2
          DEF EarlyShape, Exact, FundingHeld, TokenHeld, TokenDue, Reserving, Session
    <2>2. CASE ~(s.pc \in Early \/ s.out = "rejected")
      <3>1. LateShape(s)
        BY <2>2 DEF RequestInv, SessionShape
      <3>2. CASE s.gor = "end"
        <4>1. ~s.fundingSettled
          BY <3>1, <3>2 DEF LateShape
        <4> QED BY <1>1, <1>2, <3>2, <4>1 DEF Exact, FundingHeld, TokenHeld, TokenDue
      <3>3. CASE s.gor # "end"
        <4>1. s.out = "failed" /\ ~s.refunded
          BY <1>1, <2>2, <3>3 DEF Shows
        <4>2. s.gor = "none" /\ s.pre = 0 /\ s.tokenConsumed = 0 /\ ~s.fundingSettled
              /\ s.pc \notin Reserving
          BY <3>1, <4>1 DEF LateShape, Reserving
        <4> QED BY <1>1, <1>2, <4>2 DEF Exact, FundingHeld, TokenHeld, TokenDue
      <3> QED BY <3>2, <3>3
    <2> QED BY <2>1, <2>2
  <1> QED BY <1>3 DEF HeldBy

\* The charge of a violation fee leaves an ended request as it was, or meets
\* a database error.
LEMMA FeeKeeps ==
    ASSUME NEW s \in Session, NEW t \in Session, NEW p \in Paid, NEW q \in Paid,
           NEW f \in Nat, NEW g \in Nat, g >= f, RequestInv(s, p, f),
           s.out = "failed", t.out = s.out, t.gor = s.gor, t.settled = s.settled,
           t.refunded = s.refunded,
           q.wallet = p.wallet, q.sub = p.sub, q.token = p.token
    PROVE  /\ HeldBy(q) = HeldBy(p)
           /\ \/ Shows(t, g) = Shows(s, f)
              \/ Shows(t, g) = "exception" /\ Shows(s, f) # "charged"
  <1>1. HeldBy(q) = HeldBy(p)
    BY DEF HeldBy
  <1>2. ~s.settled
    BY DEF RequestInv, SessionShape, EarlyShape, LateShape
  <1> QED BY <1>1, <1>2 DEF Shows

\* What a request holds is a hold of the contract.
LEMMA HeldType == ASSUME NEW p \in Paid PROVE HeldBy(p) \in [funding : Int, token : Int]
  BY DEF HeldBy, Paid

\* What a step of one request means to the contract.
LEMMA ContractStep ==
    ASSUME NEW s \in Session, NEW t \in Session, NEW p \in Paid, NEW q \in Paid,
           NEW f \in Nat, NEW g \in Nat, g >= f,
           RequestInv(s, p, f), RequestInv(t, q, g),
           t.out = "ok" => t.goal \in Quotas,
           s.out = "panic" => t.out = "panic",
           \/ Busy(s)
           \/ s.out = "ok" /\ s.pc = "done" /\ ~s.settled /\ t.out = "panic"
           \/ /\ s.out = "failed" /\ t.out = s.out /\ t.gor = s.gor
              /\ t.settled = s.settled /\ t.refunded = s.refunded
              /\ q.wallet = p.wallet /\ q.sub = p.sub /\ q.token = p.token
    PROVE  \/ /\ Shows(s, f) = "open" /\ Shows(t, g) = "charged"
              /\ \E price \in Quotas, token \in BOOLEAN :
                    HeldBy(q) = [funding |-> price, token |-> IF token THEN price ELSE 0]
           \/ /\ Shows(s, f) = "open" /\ Shows(t, g) = "void"
              /\ HeldBy(q) = [funding |-> 0, token |-> 0]
           \/ Shows(s, f) = "open" /\ Shows(t, g) = "open"
           \/ /\ Shows(s, f) # "charged" /\ Shows(t, g) = "exception"
              /\ Shows(s, f) = "void" => HeldBy(q) = HeldBy(p)
           \/ Shows(t, g) = Shows(s, f) /\ HeldBy(q) = HeldBy(p)
  <1>1. CASE Busy(s)
    <2>1. Shows(s, f) = IF f > 0 \/ s.out = "panic" THEN "exception" ELSE "open"
      BY <1>1, BusyOpen
    <2>2. CASE g > 0 \/ s.out = "panic"
      BY <2>1, <2>2 DEF Shows
    <2>3. CASE g = 0 /\ s.out # "panic"
      <3>1. Shows(s, f) = "open"
        BY <2>1, <2>3
      <3>2. CASE Shows(t, g) = "charged"
        <4>1. t.goal \in Quotas
              /\ HeldBy(q) = [funding |-> t.goal, token |-> IF ~Playground(t) THEN t.goal ELSE 0]
          BY <3>2, ChargedHolds
        <4>2. PICK token \in BOOLEAN : token <=> ~Playground(t)
          OBVIOUS
        <4> QED BY <3>1, <3>2, <4>1, <4>2
      <3>3. CASE Shows(t, g) = "void"
        BY <3>1, <3>3, VoidHolds
      <3>4. Shows(t, g) \in {"charged", "void", "open", "exception"}
        BY DEF Shows
      <3> QED BY <3>1, <3>2, <3>3, <3>4
    <2> QED BY <2>2, <2>3
  <1>2. CASE s.out = "ok" /\ s.pc = "done" /\ ~s.settled /\ t.out = "panic"
    BY <1>2 DEF Shows
  <1>3. CASE ~Busy(s) /\ s.out = "failed"
    BY <1>3, FeeKeeps
  <1> QED BY <1>1, <1>2, <1>3

\* Every step is a step of the contract, or leaves it unchanged.
LEMMA ContractNext ==
    ASSUME BillingInv, BillingInv', PriceQuoted', [Next]_vars
    PROVE  [Contract!Next]_(Contract!vars)
  <1> DEFINE st == [x \in Requests |-> StatusOf(x)]
             hd == [x \in Requests |-> HeldOf(x)]
  <1>1. \A x \in Requests : /\ st[x] = Shows(sess[x], faults[x]) /\ hd[x] = HeldBy(paid[x])
                            /\ st'[x] = Shows(sess'[x], faults'[x]) /\ hd'[x] = HeldBy(paid'[x])
    BY DEF StatusOf, HeldOf, Shows, HeldBy
  <1>2. CASE UNCHANGED <<sess, faults, paid>>
    BY <1>2 DEF Contract!vars, StatusOf, HeldOf
  <1>3. ASSUME NEW r \in Requests, Moves(r)
        PROVE  Contract!Next \/ UNCHANGED Contract!vars
    <2>1. /\ sess[r] \in Session /\ sess'[r] \in Session /\ paid[r] \in Paid /\ paid'[r] \in Paid
          /\ faults[r] \in Nat /\ faults'[r] \in Nat
      BY DEF BillingInv, TypeOK
    <2>2. RequestInv(sess[r], paid[r], faults[r]) /\ RequestInv(sess'[r], paid'[r], faults'[r])
      BY DEF BillingInv
    <2>3. sess'[r].out = "ok" => sess'[r].goal \in Quotas
      BY DEF PriceQuoted
    <2>4. faults'[r] >= faults[r] /\ (Busy(sess[r]) \/ FeeOnly(r) \/ LateOnly(r))
      BY <1>3 DEF Moves
    <2>13. sess[r].out = "panic" => sess'[r].out = "panic"
      BY PanicStays
    <2> DEFINE a == Shows(sess[r], faults[r])
               b == Shows(sess'[r], faults'[r])
               h == HeldBy(paid[r])
               k == HeldBy(paid'[r])
    <2>5. st' = [st EXCEPT ![r] = b] /\ hd' = [hd EXCEPT ![r] = k]
      <3>1. \A x \in Requests : x # r => st'[x] = st[x] /\ hd'[x] = hd[x]
        BY <1>1, <1>3 DEF Moves
      <3>2. st'[r] = b /\ hd'[r] = k
        BY <1>1
      <3>3. st' = [x \in Requests |-> st'[x]] /\ hd' = [x \in Requests |-> hd'[x]]
        OBVIOUS
      <3>4. st = [x \in Requests |-> st[x]] /\ hd = [x \in Requests |-> hd[x]]
        OBVIOUS
      <3> HIDE DEF st, hd, b, k
      <3> QED BY <3>1, <3>2, <3>3, <3>4
    <2>6. st[r] = a /\ hd[r] = h /\ hd'[r] = k /\ k \in [funding : Int, token : Int]
      BY <1>1, <2>1, HeldType
    <2>7. \/ /\ a = "open" /\ b = "charged"
             /\ \E price \in Quotas, token \in BOOLEAN :
                   k = [funding |-> price, token |-> IF token THEN price ELSE 0]
          \/ a = "open" /\ b = "void" /\ k = [funding |-> 0, token |-> 0]
          \/ a = "open" /\ b = "open"
          \/ a # "charged" /\ b = "exception" /\ (a = "void" => k = h)
          \/ b = a /\ k = h
      BY <2>1, <2>2, <2>3, <2>4, <2>13, ContractStep DEF FeeOnly, LateOnly
    <2> HIDE DEF a, b, h, k
    <2>8. CASE a = "open" /\ b = "charged"
               /\ \E price \in Quotas, token \in BOOLEAN :
                     k = [funding |-> price, token |-> IF token THEN price ELSE 0]
      <3>1. Contract!Charge(r)
        BY <2>5, <2>6, <2>8 DEF Contract!Charge, Contract!Becomes
      <3> QED BY <3>1 DEF Contract!Next
    <2>9. CASE a = "open" /\ b = "void" /\ k = [funding |-> 0, token |-> 0]
      <3>1. Contract!Void(r)
        BY <2>5, <2>6, <2>9 DEF Contract!Void, Contract!Becomes, Contract!Zero
      <3> QED BY <3>1 DEF Contract!Next
    <2>10. CASE a = "open" /\ b = "open"
      <3>1. Contract!Adjust(r)
        BY <2>5, <2>6, <2>10 DEF Contract!Adjust, Contract!Becomes, Contract!Hold
      <3> QED BY <3>1 DEF Contract!Next
    <2>11. CASE a # "charged" /\ b = "exception" /\ (a = "void" => k = h)
      <3>1. Contract!Escape(r)
        BY <2>5, <2>6, <2>11 DEF Contract!Escape, Contract!Becomes, Contract!Hold
      <3> QED BY <3>1 DEF Contract!Next
    <2>12. CASE b = a /\ k = h
      <3>1. st' = st /\ hd' = hd
        BY <2>5, <2>6, <2>12
      <3> QED BY <3>1 DEF Contract!vars
    <2> QED BY <2>7, <2>8, <2>9, <2>10, <2>11, <2>12
  <1> QED BY <1>2, <1>3, NextMoves

\* BillingSession implements BillingContract, for any number of concurrent
\* requests and any pattern of database errors: a request that meets none is
\* charged one quoted price on both rows or holds nothing, and its end is
\* final.
THEOREM Implements == Spec => ImplementsContract
  <1>1. Init => Contract!Init
    <2>1. ASSUME Init, NEW r \in Requests
          PROVE  StatusOf(r) = "open" /\ HeldOf(r) = [funding |-> 0, token |-> 0]
      BY <2>1 DEF Init, StatusOf, HeldOf, IdleSession, Nothing
    <2> QED BY <2>1 DEF Contract!Init, Contract!Zero
  <1>2. BillingInv /\ BillingInv' /\ PriceQuoted' /\ [Next]_vars => [Contract!Next]_(Contract!vars)
    BY ContractNext
  <1> QED BY <1>1, <1>2, Inductive, PriceInv, PTL DEF Spec, ImplementsContract, Contract!Spec

-----------------------------------------------------------------------------
(* The subscription's books: every step changes the used amount by what it *)
(* changes the share of one request, fees included, and the clamp at zero  *)
(* is never reached, because without errors no share is negative.          *)

\* The fee of a request, seen from its session and its charges.
FeeOf(s, p) == p.fee # 0 => s.out = "failed" /\ s.pc \in {"feeToken", "done"}

\* A step of r enters in the subscription what it enters in r's share.
Books(r) ==
    /\ \E d \in Int : /\ used' = NewUsed(d)
                      /\ SubShare(sess'[r], paid'[r]) = SubShare(sess[r], paid[r]) + d
    /\ FeeOf(sess'[r], paid'[r])

\* The session goes on to t and loses no fee on the way.
KeepsFee(s, t) ==
    s.out = "failed" /\ s.pc \in {"feeToken", "done"} =>
        t.src = s.src /\ t.out = s.out /\ t.pc = s.pc

\* Movements of the funding source and of the token, and steps without any.
LEMMA MoveBooks ==
    ASSUME BillingInv, FeeTaken, NEW r \in Requests, NEW d \in Int, NEW t, Goto(r, t),
           KeepsFee(sess[r], t),
           \/ UNCHANGED <<used, paid>>
           \/ MoveFunding(r, d)
           \/ MoveToken(r, d) /\ UNCHANGED used
    PROVE  Books(r)
  <1> DEFINE s == sess[r]
             p == paid[r]
             q == paid'[r]
  <1>1. sess'[r] = t
    BY SessFrame
  <1>2. p \in Paid /\ p.sub \in Int /\ p.fee \in Nat /\ used \in Nat
    BY DEF BillingInv, TypeOK, Paid
  <1>3. FeeOf(s, p)
    BY DEF FeeTaken, FeeOf
  <1>4. SubShare(t, p) = SubShare(s, p) /\ FeeOf(t, p) /\ SubShare(s, p) \in Int
    BY <1>2, <1>3 DEF SubShare, FeeOf, KeepsFee
  <1>5. PICK n \in Int : used' = NewUsed(n) /\ q.sub = p.sub + n /\ q.fee = p.fee
    <2>1. CASE UNCHANGED <<used, paid>>
      <3>1. used' = NewUsed(0) /\ q.sub = p.sub + 0 /\ q.fee = p.fee
        BY <2>1, <1>2 DEF NewUsed
      <3> QED BY <3>1
    <2>2. CASE MoveFunding(r, d)
      <3>1. CASE s.src = "wallet"
        <4>1. used' = NewUsed(0) /\ q.sub = p.sub + 0 /\ q.fee = p.fee
          BY <2>2, <3>1, <1>2 DEF MoveFunding, NewUsed, BillingInv, TypeOK, Paid
        <4> QED BY <4>1
      <3>2. CASE s.src # "wallet"
        BY <2>2, <3>2, <1>2 DEF MoveFunding, BillingInv, TypeOK, Paid
      <3> QED BY <3>1, <3>2
    <2>3. CASE MoveToken(r, d) /\ UNCHANGED used
      <3>1. used' = NewUsed(0) /\ q.sub = p.sub + 0 /\ q.fee = p.fee
        BY <2>3, <1>2 DEF MoveToken, NewUsed, BillingInv, TypeOK, Paid
      <3> QED BY <3>1
    <2> QED BY <2>1, <2>2, <2>3
  <1>6. SubShare(t, q) = SubShare(t, p) + n
    BY <1>2, <1>5 DEF SubShare
  <1>7. FeeOf(t, q)
    BY <1>4, <1>5 DEF FeeOf
  <1> QED BY <1>1, <1>4, <1>5, <1>6, <1>7 DEF Books

\* Before its fee a request has none to lose.
LEMMA GoBooks ==
    ASSUME BillingInv, FeeTaken, NEW r \in Requests, NEW d \in Int,
           sess[r].pc \notin {"feeToken", "done"}, \E t : Goto(r, t),
           \/ UNCHANGED <<used, paid>>
           \/ MoveFunding(r, d)
           \/ MoveToken(r, d) /\ UNCHANGED used
    PROVE  Books(r)
  <1>1. PICK t : Goto(r, t)
    OBVIOUS
  <1> QED BY <1>1, MoveBooks DEF KeepsFee

\* The outside world moves quota only in Reserve.
LEMMA EnvironmentBooks ==
    ASSUME BillingInv, FeeTaken, NEW r \in Requests, Environment(r) PROVE Books(r)
  <1>1. CASE Begin(r)
    <2>1. sess[r].pc \notin {"feeToken", "done"} /\ (\E t : Goto(r, t)) /\ UNCHANGED <<used, paid>>
      BY <1>1 DEF Begin, At
    <2> QED BY <2>1, GoBooks
  <1>2. CASE Respond(r)
    <2>1. sess[r].pc \notin {"feeToken", "done"} /\ (\E t : Goto(r, t)) /\ UNCHANGED <<used, paid>>
      BY <1>2 DEF Respond, At
    <2> QED BY <2>1, GoBooks
  <1>3. CASE Fail(r)
    <2>1. sess[r].pc \notin {"feeToken", "done"} /\ (\E t : Goto(r, t)) /\ UNCHANGED <<used, paid>>
      BY <1>3 DEF Fail, At
    <2> QED BY <2>1, GoBooks
  <1>4. CASE Panic(r)
    <2>1. sess[r].pc \notin {"feeToken", "done"} /\ (\E t : Goto(r, t)) /\ UNCHANGED <<used, paid>>
      BY <1>4 DEF Panic, At
    <2> QED BY <2>1, GoBooks
  <1>6. CASE LatePanic(r)
    <2>1. PICK t : Goto(r, t)
      BY <1>6 DEF LatePanic
    <2>2. UNCHANGED <<used, paid>> /\ KeepsFee(sess[r], t)
      BY <1>6 DEF LatePanic, KeepsFee
    <2>3. PICK d \in Int : TRUE
      OBVIOUS
    <2> QED BY <2>1, <2>2, <2>3, MoveBooks
  <1>5. ASSUME NEW ok \in BOOLEAN, Reserve(r, ok) PROVE Books(r)
    <2>1. PICK target \in Quotas : Reserve(r, ok)!(target)
      BY <1>5 DEF Reserve
    <2>2. PICK d \in Int : d = target - sess[r].pre
      BY BeforeStep, BillingAssumption
    <2>3. sess[r].pc \notin {"feeToken", "done"}
      BY <2>1 DEF At
    <2>4. (\E t : Goto(r, t)) /\ (UNCHANGED <<used, paid>> \/ MoveFunding(r, d))
      <3>1. UNCHANGED sess => Goto(r, sess[r])
        BY FaultsUnchanged DEF Goto
      <3>2. CASE FundingAccepts(sess[r], d, ok)
        BY <2>1, <2>2, <3>2
      <3>3. CASE ~FundingAccepts(sess[r], d, ok)
        BY <2>1, <2>2, <3>1, <3>3
      <3> QED BY <3>2, <3>3
    <2> QED BY <2>3, <2>4, GoBooks
  <1> QED BY <1>1, <1>2, <1>3, <1>4, <1>5, <1>6 DEF Environment

\* NewBillingSession: the pre-consume moves the estimate, the roll-back the token.
LEMMA PreConsumeBooks ==
    ASSUME BillingInv, FeeTaken, NEW r \in Requests, NEW ok \in BOOLEAN, PreConsumeStep(r, ok)
    PROVE  Books(r)
  <1>1. sess[r].pc \notin {"feeToken", "done"}
    BY DEF PreConsumeStep, SelectFunding, TryWallet, CheckToken, DebitToken, PreConsumeFunding,
           UndoToken, At
  <1>2. \E t : Goto(r, t)
    BY DEF PreConsumeStep, SelectFunding, TryWallet, CheckToken, DebitToken, PreConsumeFunding,
           UndoToken
  <1>3. PICK d \in {0, sess[r].eff, -sess[r].tokenConsumed} :
            \/ UNCHANGED <<used, paid>>
            \/ MoveFunding(r, d)
            \/ MoveToken(r, d) /\ UNCHANGED used
    BY DEF PreConsumeStep, SelectFunding, TryWallet, CheckToken, DebitToken, PreConsumeFunding,
           UndoToken
  <1>4. d \in Int
    BY BeforeStep
  <1> QED BY <1>1, <1>2, <1>3, <1>4, GoBooks

\* A Reserve and the settlement move the difference to the target.
LEMMA AdjustBooks ==
    ASSUME BillingInv, FeeTaken, NEW r \in Requests, NEW ok \in BOOLEAN,
           ReserveStep(r, ok) \/ SettleFunding(r, ok) \/ SettleToken(r, ok)
    PROVE  Books(r)
  <1> DEFINE e == sess[r].goal - sess[r].pre
  <1>1. sess[r].pc \notin {"feeToken", "done"}
    BY DEF ReserveStep, ReserveCheckToken, ReserveDebitToken, UndoReserve, SettleFunding,
           SettleToken, At
  <1>2. \E t : Goto(r, t)
    BY DEF ReserveStep, ReserveCheckToken, ReserveDebitToken, UndoReserve, SettleFunding,
           SettleToken
  <1>3. PICK d \in {e, -e} :
            \/ UNCHANGED <<used, paid>>
            \/ MoveFunding(r, d)
            \/ MoveToken(r, d) /\ UNCHANGED used
    BY DEF ReserveStep, ReserveCheckToken, ReserveDebitToken, UndoReserve, SettleFunding,
           SettleToken
  <1>4. d \in Int
    BY BeforeStep
  <1> QED BY <1>1, <1>2, <1>3, <1>4, GoBooks

\* The violation fee is charged once, to the session's own funding source.
LEMMA FeeBooks ==
    ASSUME BillingInv, FeeTaken, NEW r \in Requests, NEW ok \in BOOLEAN,
           ChargeFee(r, ok) \/ ChargeFeeToken(r, ok)
    PROVE  Books(r)
  <1> DEFINE s == sess[r]
             p == paid[r]
             q == paid'[r]
  <1>1. s \in Session /\ p \in Paid /\ p.sub \in Int /\ p.fee \in Nat /\ used \in Nat /\ Fee \in Nat
    BY BeforeStep, BillingAssumption DEF Paid, BillingInv, TypeOK
  <1>2. s.out = "failed" /\ s.src \in {"wallet", "subscription"}
    BY BeforeStep DEF ChargeFee, ChargeFeeToken, At, Before, RequestInv, SessionShape,
                      EarlyShape, LateShape, Early, Reserving
  <1>3. PICK x \in {"feeToken", "done"} : Goto(r, [s EXCEPT !.pc = x])
    BY DEF ChargeFee, ChargeFeeToken
  <1>4. /\ sess'[r] = [s EXCEPT !.pc = x]
        /\ sess'[r].src = s.src /\ sess'[r].out = "failed" /\ sess'[r].pc \in {"feeToken", "done"}
    BY <1>1, <1>2, <1>3, SessFrame DEF Session
  <1>5. FeeOf(sess'[r], q)
    BY <1>4 DEF FeeOf
  <1>6. CASE UNCHANGED <<used, paid>>
    <2>1. used' = NewUsed(0) /\ SubShare(sess'[r], q) = SubShare(s, p) + 0
      BY <1>1, <1>4, <1>6 DEF SubShare, NewUsed
    <2> QED BY <1>5, <2>1 DEF Books
  <1>7. CASE ChargeFeeToken(r, ok)
    <2>1. UNCHANGED used /\ q.sub = p.sub /\ q.fee = p.fee
      BY <1>1, <1>7 DEF ChargeFeeToken, BillingInv, TypeOK, Paid
    <2>2. used' = NewUsed(0) /\ SubShare(sess'[r], q) = SubShare(s, p) + 0
      BY <1>1, <1>4, <2>1 DEF SubShare, NewUsed
    <2> QED BY <1>5, <2>2 DEF Books
  <1>8. CASE ChargeFee(r, ok) /\ ~UNCHANGED <<used, paid>>
    <2>1. p.fee = 0
      BY <1>8, <1>1 DEF FeeTaken, ChargeFee, At
    <2>2. paid' = [paid EXCEPT ![r].fee = Fee]
      BY <1>8 DEF ChargeFee
    <2>3. q.sub = p.sub /\ q.fee = Fee
      BY <1>1, <2>2 DEF BillingInv, TypeOK, Paid
    <2>4. IF s.src = "wallet" THEN used' = used ELSE used' = NewUsed(Fee)
      BY <1>8 DEF ChargeFee
    <2>5. CASE s.src = "wallet"
      <3>1. used' = NewUsed(0) /\ SubShare(sess'[r], q) = SubShare(s, p) + 0
        BY <1>1, <1>4, <2>3, <2>4, <2>5 DEF SubShare, NewUsed
      <3> QED BY <1>5, <3>1 DEF Books
    <2>6. CASE s.src = "subscription"
      <3>1. used' = NewUsed(Fee)
        BY <2>4, <2>6
      <3>2. SubShare(sess'[r], q) = SubShare(s, p) + Fee
        BY <1>1, <1>4, <2>1, <2>3, <2>6 DEF SubShare
      <3> QED BY <1>1, <1>5, <3>1, <3>2 DEF Books
    <2> QED BY <1>2, <2>5, <2>6
  <1> QED BY <1>6, <1>7, <1>8

\* The refund goroutine gives back beside the fee and leaves it alone.
LEMMA RefundBooks ==
    ASSUME BillingInv, FeeTaken, NEW r \in Requests, NEW ok \in BOOLEAN, RefundStep(r, ok)
    PROVE  Books(r)
  <1> DEFINE s == sess[r]
  <1>1. s \in Session
    BY BeforeStep
  <1>2. PICK t : Goto(r, t) /\ KeepsFee(s, t)
    <2> DEFINE x == [s EXCEPT !.gor = "extra"]
               y == [s EXCEPT !.gor = "token"]
               z == [s EXCEPT !.gor = "end"]
               w == [s EXCEPT !.tries = @ + 1]
    <2>1. KeepsFee(s, x) /\ KeepsFee(s, y) /\ KeepsFee(s, z) /\ KeepsFee(s, w)
      BY <1>1 DEF Session, KeepsFee
    <2>2. Goto(r, x) \/ Goto(r, y) \/ Goto(r, z) \/ Goto(r, w)
      BY DEF RefundStep, RefundWallet, RefundSubscription, RefundExtra, RefundToken
    <2> HIDE DEF x, y, z, w
    <2> QED BY <2>1, <2>2
  <1>3. PICK d \in {-s.consumed, -s.extra, -s.tokenConsumed} :
            \/ UNCHANGED <<used, paid>>
            \/ MoveFunding(r, d)
            \/ MoveToken(r, d) /\ UNCHANGED used
    BY DEF RefundStep, RefundWallet, RefundSubscription, RefundExtra, RefundToken
  <1>4. d \in Int
    BY BeforeStep
  <1> QED BY <1>2, <1>3, <1>4, MoveBooks

\* A step of a request keeps the books; any other step leaves them alone.
LEMMA NextBooks ==
    ASSUME BillingInv, FeeTaken, [Next]_vars
    PROVE  \/ UNCHANGED <<used, sess, faults, paid>>
           \/ \E r \in Requests : Moves(r) /\ Books(r)
  <1>1. CASE UNCHANGED vars \/ Expire \/ Quiesce
    BY <1>1 DEF vars, Expire, Quiesce
  <1>2. ASSUME NEW r \in Requests, Environment(r)
        PROVE  UNCHANGED <<used, sess, faults, paid>> \/ (Moves(r) /\ Books(r))
    <2>1. UNCHANGED <<used, sess, faults, paid>> \/ Moves(r)
      BY <1>2, BeginMoves, RespondMoves, FailMoves, LateMoves, ReserveMoves DEF Environment
    <2> QED BY <1>2, <2>1, EnvironmentBooks
  <1>3. ASSUME NEW r \in Requests, NEW ok \in BOOLEAN,
               PreConsumeStep(r, ok) \/ ReserveStep(r, ok) \/ SettleStep(r, ok) \/ RefundStep(r, ok)
        PROVE  Moves(r) /\ Books(r)
    <2>1. Moves(r)
      BY <1>3, PreConsumeMoves, ReserveStepMoves, SettleMoves, FeeMoves, RefundMoves DEF SettleStep
    <2>2. Books(r)
      BY <1>3, PreConsumeBooks, AdjustBooks, FeeBooks, RefundBooks DEF SettleStep
    <2> QED BY <2>1, <2>2
  <1> QED BY <1>1, <1>2, <1>3 DEF Next

\* Without database errors no request has a negative share.
LEMMA ShareType ==
    ASSUME NEW s \in Session, NEW p \in Paid, RequestInv(s, p, 0)
    PROVE  SubShare(s, p) \in Nat
  <1>1. Exact(s, p) /\ p.fee \in Nat
    BY DEF RequestInv, Paid
  <1>2. FundingHeld(s) \in Nat
    BY DEF FundingHeld, Session
  <1>3. p.sub \in Nat
    BY <1>1, <1>2 DEF Exact
  <1> QED BY <1>1, <1>3 DEF SubShare

\* A step of a request keeps the used amount equal to the sum of the shares.
LEMMA AccountedStep ==
    ASSUME BillingInv, BillingInv', SubUsedAccounted, NEW r \in Requests, Moves(r), Books(r)
    PROVE  SubUsedAccounted'
  <1> DEFINE f == [x \in Requests |-> SubShare(sess[x], paid[x])]
             g == [x \in Requests |-> SubShare(sess'[x], paid'[x])]
  <1> SUFFICES ASSUME \A x \in Requests : faults'[x] = 0
               PROVE  used' = SumFunction(g)
    BY DEF SubUsedAccounted
  <1>1. \A x \in Requests : faults[x] = 0
    <2>1. faults[r] \in Nat /\ faults'[r] >= faults[r] /\ faults'[r] = 0
      BY DEF Moves, BillingInv, TypeOK
    <2>2. faults[r] = 0
      BY <2>1
    <2> QED BY <2>2 DEF Moves
  <1>2. f \in [Requests -> Nat]
    <2>1. ASSUME NEW x \in Requests PROVE SubShare(sess[x], paid[x]) \in Nat
      BY <1>1, ShareType DEF BillingInv, TypeOK
    <2> QED BY <2>1
  <1>3. g \in [Requests -> Nat]
    <2>1. ASSUME NEW x \in Requests PROVE SubShare(sess'[x], paid'[x]) \in Nat
      <3>1. sess'[x] \in Session /\ paid'[x] \in Paid /\ RequestInv(sess'[x], paid'[x], 0)
        BY DEF BillingInv, TypeOK
      <3> QED BY <3>1, ShareType
    <2> QED BY <2>1
  <1>4. PICK d \in Int : used' = NewUsed(d) /\ g[r] = f[r] + d
    BY DEF Books
  <1>5. \A x \in Requests : x # r => g[x] = f[x]
    BY DEF Moves
  <1>6. used = SumFunction(f)
    BY <1>1 DEF SubUsedAccounted
  <1> HIDE DEF f, g
  <1>7. SumFunction(g) = SumFunction(f) + (g[r] - f[r])
    <2>1. f \in [Requests -> Int] /\ g \in [Requests -> Int]
      BY <1>2, <1>3
    <2> QED BY <1>5, <2>1, SumChange, BillingAssumption
  <1>8. SumFunction(f) \in Nat /\ SumFunction(g) \in Nat
    BY <1>2, <1>3, SumType, BillingAssumption
  <1>9. f[r] \in Nat /\ g[r] \in Nat
    BY <1>2, <1>3
  <1> QED BY <1>4, <1>6, <1>7, <1>8, <1>9 DEF NewUsed

\* The books add up from the first state on.
LEMMA AccountedInit == Init => SubUsedAccounted /\ FeeTaken
  <1> SUFFICES ASSUME Init PROVE SubUsedAccounted /\ FeeTaken
    OBVIOUS
  <1> DEFINE f == [r \in Requests |-> SubShare(sess[r], paid[r])]
  <1>1. \A r \in Requests : f[r] = 0
    BY DEF Init, SubShare, Nothing
  <1>2. f \in [Requests -> Nat]
    <2>1. \A r \in Requests : SubShare(sess[r], paid[r]) = 0
      BY <1>1
    <2> QED BY <2>1
  <1> HIDE DEF f
  <1>3. SumFunction(f) = 0
    BY <1>1, <1>2, SumType, BillingAssumption
  <1>4. SubUsedAccounted
    BY <1>3 DEF Init, SubUsedAccounted, f
  <1>5. FeeTaken
    BY DEF Init, FeeTaken, Nothing
  <1> QED BY <1>4, <1>5

\* Without database errors the subscription's used amount is what its requests
\* hold and the fees they paid, for any number of concurrent requests: the
\* clamp of PostConsumeUserSubscriptionDelta swallows nothing.
THEOREM SubAccounted == Spec => []SubUsedAccounted
  <1>1. Init => SubUsedAccounted /\ FeeTaken
    BY AccountedInit
  <1>2. BillingInv /\ BillingInv' /\ SubUsedAccounted /\ FeeTaken /\ [Next]_vars
          => (SubUsedAccounted /\ FeeTaken)'
    <2> SUFFICES ASSUME BillingInv, BillingInv', SubUsedAccounted, FeeTaken, [Next]_vars
                 PROVE  (SubUsedAccounted /\ FeeTaken)'
      OBVIOUS
    <2>1. CASE UNCHANGED <<used, sess, faults, paid>>
      BY <2>1 DEF SubUsedAccounted, FeeTaken
    <2>2. CASE \E r \in Requests : Moves(r) /\ Books(r)
      <3>1. PICK r \in Requests : Moves(r) /\ Books(r)
        BY <2>2
      <3>2. FeeTaken'
        BY <3>1 DEF FeeTaken, FeeOf, Moves, Books
      <3> QED BY <3>1, <3>2, AccountedStep
    <2> QED BY <2>1, <2>2, NextBooks
  <1> QED BY <1>1, <1>2, Inductive, PTL DEF Spec
=============================================================================
