----------------------- MODULE ExecutionKernelProofs ------------------------
(***************************************************************************)
(* Theorems about ExecutionKernel, for every value of its constants.  The  *)
(* first part proves that it keeps its types, the second its safety.  Each *)
(* invariant rests on the types (Typing) and on the layers before it:      *)
(*   Durable      memory is what a restart would read;                     *)
(*   Submission   what was posted was recorded first, and posted once;     *)
(*   Restriction  a purchase on its way out is allowed;                    *)
(*   Closure      an order is closed as the exchange closed it;            *)
(*   Progress     what was reported as begun is never as good as new.      *)
(*                                                                         *)
(* The third part is about the capital and has two conditions: the         *)
(* estimate of a purchase covers the dearest price the exchange may fill   *)
(* it at, and no order is closed with fills by anything but its last fill. *)
(* Then the account never pays more than it was given.  The kernel         *)
(* reserves cash for its open purchases by a sum over orders               *)
(* (MapThenSumSet), so that part begins with what a sum does.              *)
(***************************************************************************)
EXTENDS ExecutionKernel, FiniteSetTheorems, WellFoundedInduction, TLAPS

-----------------------------------------------------------------------------
(* Facts about the operators.                                              *)

\* One iteration of the replay keeps a well-formed book well formed: no position and
\* no applied figure becomes negative, because what would make it so is refused.
LEMMA ApplyReportType ==
  ASSUME NEW b \in Books, NEW r \in Reports, IsFill(r) => r.order \in Keys
  PROVE  ApplyReport(b, r) \in Books
<1>1. [b EXCEPT !.broken = TRUE] \in Books
  BY DEF Books
<1>2. ASSUME r.order \in Keys, ~Regressed(b, r),
             ~WouldGoShort(b, r, Delta(b.qty[r.order], r.qty))
      PROVE  WithFill(b, r) \in Books
  <2>1. /\ b.cash \in Int /\ b.pos \in [Symbols -> Nat] /\ b.qty \in [Keys -> Nat]
        /\ b.gross \in [Keys -> Nat] /\ b.fee \in [Keys -> Nat]
    BY DEF Books
  <2>2. /\ r.symbol \in Symbols /\ r.qty \in Nat /\ r.gross \in Nat /\ r.fee \in Nat
        /\ r.side \in {"BUY", "SELL"}
    BY DEF Reports, OrderSide
  <2> DEFINE moved == Delta(b.qty[r.order], r.qty)
             sign == IF r.side = "BUY" THEN 1 ELSE -1
  <2>3. moved \in Nat
    BY <1>2, <2>1, <2>2 DEF Regressed, Delta
  <2>4. b.pos[r.symbol] + sign * moved \in Nat
    <3> HIDE DEF moved
    <3>1. CASE r.side = "BUY"
      BY <3>1, <2>1, <2>2, <2>3
    <3>2. CASE r.side = "SELL"
      <4>1. moved <= b.pos[r.symbol]
        BY <3>2, <1>2, <2>1, <2>2, <2>3 DEF WouldGoShort, moved
      <4> QED BY <4>1, <3>2, <2>1, <2>2, <2>3
    <3> QED BY <3>1, <3>2, <2>2
  <2>5. b.cash - sign * Delta(b.gross[r.order], r.gross) - Delta(b.fee[r.order], r.fee) \in Int
    BY <1>2, <2>1, <2>2 DEF Delta
  <2>6. [b.pos EXCEPT ![r.symbol] = @ + sign * moved] \in [Symbols -> Nat]
    BY <2>1, <2>2, <2>4
  <2> HIDE DEF moved, sign
  <2> QED BY <1>2, <2>1, <2>2, <2>5, <2>6 DEF WithFill, Books, moved, sign
<1> QED BY <1>1, <1>2 DEF ApplyReport

\* What the kernel makes of a report keeps its fields well formed.
LEMMA HydratedReportType ==
  ASSUME NEW s \in KernelStates, NEW r \in Reports, IsFill(r) => r.order \in Keys
  PROVE  HydratedReport(s, r) \in KernelStates
<1>1. Linked(s, r) \in [Keys -> Keys \cup {None}]
  BY DEF Linked, KernelStates, Reports
<1>2. ApplyReport(s.book, r) \in Books
  BY ApplyReportType DEF KernelStates
<1> QED BY <1>1, <1>2 DEF HydratedReport, KernelStates, Reports

LEMMA HydratedTransitionType ==
  ASSUME NEW s \in KernelStates, NEW k \in Keys, NEW to \in OrderStatus
  PROVE  HydratedTransition(s, k, to) \in KernelStates
BY DEF HydratedTransition, KernelStates

\* A snapshot is a report about the order it was asked for.
LEMMA SnapshotType ==
  ASSUME NEW k \in Keys, order \in [Keys -> VenueOrders \cup {None}], order[k] # None
  PROVE  Snapshot(k) \in Reports /\ Snapshot(k).order = k /\ Snapshot(k).key = k
<1>1. order[k] \in VenueOrders
  OBVIOUS
<1>2. MapStatus(order[k].st) \in OrderStatus
  BY DEF MapStatus, OrderStatus
<1>3. <<"alpaca", k, MapStatus(order[k].st), order[k].filled>> \in ReportIds
  BY <1>1, <1>2 DEF ReportIds, VenueOrders
<1> QED BY <1>1, <1>2, <1>3 DEF Snapshot, Reports, VenueOrders

\* What an approval tells: the checks of the risk engine it passed.
LEMMA Approval ==
  ASSUME NEW p, NEW i, NEW cash, NEW position, NEW m, NEW ks, NEW known, NEW fresh,
         Evaluate(p, i, cash, position, m, ks, known, fresh) = "APPROVED"
  PROVE  /\ ~DuplicateKey(p, known)
         /\ ~OpeningBlocked(p, m, ks)
         /\ p.action = "CANCEL" => p.target # None
         /\ p.action \notin {"HOLD", "CANCEL"} => i # None
BY DEF Evaluate

LEMMA VerdictType ==
  ASSUME NEW p, NEW i, NEW cash, NEW position, NEW m, NEW ks, NEW known, NEW fresh
  PROVE  Evaluate(p, i, cash, position, m, ks, known, fresh) \in RejectionReason
BY DEF Evaluate, RejectionReason

\* The quantity an intent is derived with, and the intent itself.
LEMMA DerivedQuantityType ==
  ASSUME NEW s \in KernelStates, NEW p \in ProposalType
  PROVE  DerivedQuantity(s, p) \in Nat \cup {None}
<1>1. s.book.pos[p.symbol] \in Nat
  BY DEF KernelStates, Books, ProposalType
<1>2. ASSUME NEW percent \in 0 .. 100
      PROVE  PartOf(s.book.pos[p.symbol], percent) \in Nat
  <2>1. s.book.pos[p.symbol] * percent + 99 \in Nat
    BY <1>1
  <2> QED BY <2>1 DEF PartOf
<1> QED BY <1>1, <1>2 DEF DerivedQuantity, ProposalType

LEMMA DerivedIntentType ==
  ASSUME NEW s \in KernelStates, NEW p \in ProposalType,
         DerivedQuantity(s, p) # 0, DerivedIntent(s, p) # None
  PROVE  /\ DerivedIntent(s, p) \in Intents
         /\ DerivedIntent(s, p).key = p.key
         /\ DerivedIntent(s, p).side = IF p.action \in Opening THEN "BUY" ELSE "SELL"
<1>1. DerivedQuantity(s, p) \in Nat \ {0}
  BY DerivedQuantityType DEF DerivedIntent
<1> QED BY <1>1 DEF DerivedIntent, Intents, OrderSide, ProposalType

-----------------------------------------------------------------------------
(* Types.                                                                  *)

\* The steps of handle_proposal and _handle_cancel, those with an intent recorded, those
\* with a report in hand.
HandlerSteps == Steps \ {"down", "idle", "reconcile", "reconcile_settle"}
IntentSteps == {"validate", "mark_submitting", "submit", "posted", "record", "settle"}
ReportSteps == {"record", "settle", "cancel_record", "reconcile", "reconcile_settle"}

\* What a handler has in hand at each of its steps.  The types alone are not inductive: they
\* do not say that a handler in progress has a proposal, an intent or a report.
Situation ==
  /\ pc \in HandlerSteps => proposal \in Proposals
  /\ pc \in {"evaluate", "create_intent"} => DerivedQuantity(mem, proposal) # 0
  /\ pc = "create_intent" => DerivedIntent(mem, proposal) # None
  /\ pc \in IntentSteps => mem.intent[proposal.key] # None
  /\ pc \in ReportSteps => report \in Reports /\ (IsFill(report) => report.order \in Keys)
  /\ pc \in {"cancel", "cancel_reply"} => proposal.target # None
  /\ pc = "cancel_reply" => order[proposal.target] # None

Typing == TypeOK /\ Situation

LEMMA InitTyping == Init => Typing
<1> SUFFICES ASSUME Init PROVE Typing
  OBVIOUS
<1>1. EmptyBook \in Books
  BY StartingCashAssumption DEF EmptyBook, Books
<1>2. EmptyState \in KernelStates
  BY <1>1 DEF EmptyState, KernelStates, OrderStatus
<1>3. /\ posts \in [Keys -> Nat]
      /\ wire \in [Keys -> Intents \cup {None}]
      /\ order \in [Keys -> VenueOrders \cup {None}]
      /\ shares \in [Symbols -> Int]
  BY DEF Init, VenueInit
<1>4. kill \in BOOLEAN
  BY DEF Init
<1>5. TypeOK
  BY <1>2, <1>3, <1>4 DEF Init, VenueInit, TypeOK, Steps, Results, ExperimentMode
<1> QED BY <1>5 DEF Typing, Situation, Init, HandlerSteps, IntentSteps, ReportSteps

\* A handler that ends leaves nothing in hand.
LEMMA ReturnTyping ==
  ASSUME Typing, NEW outcome \in Results, Return(outcome),
         mem' \in KernelStates, ledger' \in KernelStates, mode' \in ExperimentMode,
         UNCHANGED <<kill, restarts, posts, venueVars>>
  PROVE  Typing'
BY DEF Typing, TypeOK, Situation, Return, venueVars, Steps, HandlerSteps, IntentSteps, ReportSteps

LEMMA SafeFromType ==
  ASSUME NEW m \in ExperimentMode
  PROVE  SafeFrom(m) \in ExperimentMode
BY DEF SafeFrom, ExperimentMode

LEMMA ReceiveTyping ==
  ASSUME Typing, NEW p \in Proposals, Receive(p)
  PROVE  Typing'
<1>1. p \in ProposalType
  BY KernelAssumption
<1>2. mem' \in KernelStates /\ ledger' \in KernelStates
  BY <1>1 DEF Receive, HydratedProposal, Typing, TypeOK, KernelStates, ProposalType
<1>3. CASE DerivationRaises(mem, p)
  <2>1. mode' \in ExperimentMode /\ Return("RAISED")
    BY <1>3 DEF Receive, Raise, Typing, TypeOK
  <2> QED BY <1>2, <2>1, ReturnTyping DEF Receive, Results
<1>4. CASE ~DerivationRaises(mem, p)
  <2>1. DerivedQuantity(mem', p) = DerivedQuantity(mem, p)
    BY DEF Receive, DerivedQuantity, Typing, TypeOK, KernelStates
  <2>2. pc' = "evaluate" /\ proposal' = p /\ result' = None /\ UNCHANGED <<report, mode>>
    BY <1>4 DEF Receive, Goto
  <2>3. UNCHANGED <<kill, restarts, posts, venueVars>>
    BY DEF Receive
  <2> QED BY <1>2, <1>4, <2>1, <2>2, <2>3
          DEF DerivationRaises, Typing, TypeOK, Situation, venueVars, Steps, Results,
              HandlerSteps, IntentSteps, ReportSteps
<1> QED BY <1>3, <1>4

LEMMA DecideTyping ==
  ASSUME Typing, Decide
  PROVE  Typing'
<1> DEFINE p == proposal
           verdict(fresh) == Evaluate(p, DerivedIntent(mem, p), AvailableCash(mem),
                               mem.book.pos[p.symbol], mode, kill, mem.known, fresh)
<1>1. pc = "evaluate" /\ p \in Proposals /\ p \in ProposalType
  BY KernelAssumption DEF Decide, At, Typing, Situation, HandlerSteps, Steps
<1>2. PICK fresh \in BOOLEAN :
        LET approved == verdict(fresh) = "APPROVED"
        IN  /\ ledger' = HydratedDecision(ledger, p.key, approved)
            /\ mem' = IF approved THEN [mem EXCEPT !.known = @ \cup {p.key}] ELSE mem
            /\ IF approved /\ p.action # "HOLD"
               THEN /\ Goto(AfterApproval(p))
                    /\ result' = verdict(fresh)
                    /\ UNCHANGED <<proposal, report>>
               ELSE Return(verdict(fresh))
  BY DEF Decide
<1>3. verdict(fresh) \in RejectionReason
  BY VerdictType
<1>4. mem' \in KernelStates /\ ledger' \in KernelStates
  BY <1>1, <1>2 DEF HydratedDecision, Typing, TypeOK, KernelStates, ProposalType
<1>5. UNCHANGED <<controlVars, restarts, posts, venueVars>>
  BY DEF Decide
<1>6. CASE verdict(fresh) = "APPROVED" /\ p.action # "HOLD"
  <2>1. pc' = AfterApproval(p) /\ result' = verdict(fresh) /\ UNCHANGED <<proposal, report>>
    BY <1>2, <1>6 DEF Goto
  <2>2. /\ p.action = "CANCEL" => p.target # None
        /\ p.action \notin {"HOLD", "CANCEL"} => DerivedIntent(mem, p) # None
    BY <1>6, Approval
  <2>3. /\ DerivedQuantity(mem', p) = DerivedQuantity(mem, p)
        /\ DerivedIntent(mem', p) = DerivedIntent(mem, p)
    BY <1>2, <1>6 DEF DerivedQuantity, DerivedIntent, Typing, TypeOK, KernelStates
  <2>4. \/ pc' = "cancel" /\ p.target # None
        \/ pc' = "create_intent" /\ DerivedIntent(mem', p) # None
    BY <1>6, <2>1, <2>2, <2>3 DEF AfterApproval
  <2>5. DerivedQuantity(mem', p) # 0
    BY <1>1, <2>3 DEF Typing, Situation
  <2> HIDE DEF verdict
  <2>6. TypeOK'
    BY <1>3, <1>4, <1>5, <2>1, <2>4
       DEF Typing, TypeOK, venueVars, controlVars, Results, Steps
  <2>7. Situation'
    BY <1>1, <2>1, <2>4, <2>5 DEF Situation, HandlerSteps, IntentSteps, ReportSteps
  <2> QED BY <2>6, <2>7 DEF Typing
<1>7. CASE ~(verdict(fresh) = "APPROVED" /\ p.action # "HOLD")
  <2>1. Return(verdict(fresh)) /\ verdict(fresh) \in Results
    BY <1>2, <1>3, <1>7 DEF Results
  <2> HIDE DEF verdict
  <2> QED BY <1>4, <1>5, <2>1, ReturnTyping DEF Typing, TypeOK, controlVars
<1> QED BY <1>6, <1>7

LEMMA CreateIntentTyping ==
  ASSUME Typing, CreateIntent
  PROVE  Typing'
<1> DEFINE i == DerivedIntent(mem, proposal)
<1>1. pc = "create_intent" /\ proposal \in Proposals /\ proposal \in ProposalType
  BY KernelAssumption DEF CreateIntent, At, Typing, Situation, HandlerSteps, Steps
<1>2. i \in Intents /\ i.key = proposal.key /\ i.key \in Keys
  BY <1>1, DerivedIntentType DEF Typing, TypeOK, Situation, ProposalType
<1>3. /\ mem' = [mem EXCEPT !.intent[i.key] = i, !.status[i.key] = "CREATED"]
      /\ ledger' = HydratedTransition(HydratedIntent(ledger, i), i.key, "CREATED")
      /\ pc' = "validate"
      /\ UNCHANGED <<proposal, report, result, controlVars, restarts, posts, venueVars>>
  BY DEF CreateIntent, Goto
<1> HIDE DEF i
<1>4. mem' \in KernelStates /\ ledger' \in KernelStates /\ mem'.intent[proposal.key] = i
  BY <1>2, <1>3 DEF HydratedTransition, HydratedIntent, Typing, TypeOK, KernelStates, OrderStatus
<1>5. i # None
  BY <1>2, NoneAssumption
<1> QED BY <1>1, <1>3, <1>4, <1>5
        DEF Typing, TypeOK, Situation, venueVars, controlVars, Steps,
            HandlerSteps, IntentSteps, ReportSteps

LEMMA TransitionType ==
  ASSUME TypeOK, NEW k \in Keys, NEW to \in OrderStatus, Transition(k, to)
  PROVE  mem' \in KernelStates /\ ledger' \in KernelStates /\ mem'.intent = mem.intent
<1>1. HydratedTransition(ledger, k, to) \in KernelStates
  BY HydratedTransitionType DEF TypeOK
<1> QED BY <1>1 DEF Transition, TypeOK, KernelStates

LEMMA AdvanceTyping ==
  ASSUME Typing, NEW from \in {"validate", "mark_submitting"},
         NEW to \in OrderStatus, NEW next \in {"mark_submitting", "submit"},
         Advance(from, to, next)
  PROVE  Typing'
<1>1. pc = from /\ proposal \in Proposals /\ proposal.key \in Keys
  BY KernelAssumption DEF Advance, At, Typing, Situation, HandlerSteps, Steps, ProposalType
<1>2. UNCHANGED <<kill, restarts, posts, venueVars>>
  BY DEF Advance
<1>3. CASE Accepts(mem.status[proposal.key], to)
  <2>1. /\ Transition(proposal.key, to)
        /\ pc' = next
        /\ UNCHANGED <<proposal, report, result, mode>>
    BY <1>3 DEF Advance, Goto
  <2>2. mem' \in KernelStates /\ ledger' \in KernelStates /\ mem'.intent = mem.intent
    BY <1>1, <2>1, TransitionType DEF Typing
  <2> QED BY <1>1, <1>2, <2>1, <2>2
          DEF Typing, TypeOK, Situation, venueVars, Steps, HandlerSteps, IntentSteps, ReportSteps
<1>4. CASE ~Accepts(mem.status[proposal.key], to)
  <2>1. /\ Return("INVALID_ORDER_STATE_TRANSITION") /\ mode' = SafeFrom(mode)
        /\ UNCHANGED <<mem, ledger>>
    BY <1>4 DEF Advance, EnterSafeMode
  <2> QED BY <1>2, <2>1, ReturnTyping, SafeFromType DEF Typing, TypeOK, Results
<1> QED BY <1>3, <1>4

LEMMA RaiseTyping ==
  ASSUME Typing, Raise \/ FailSafe, UNCHANGED <<mem, ledger, kill, restarts, posts, venueVars>>
  PROVE  Typing'
<1>1. Return("RAISED") /\ mode' \in ExperimentMode
  BY SafeFromType DEF Raise, FailSafe, EnterSafeMode, Typing, TypeOK
<1> QED BY <1>1, ReturnTyping DEF Typing, TypeOK, Results

\* An answer taken from the exchange is a report on its order.
LEMMA AnswerTyping ==
  ASSUME Typing, NEW k \in Keys, order[k] # None, report' = Snapshot(k)
  PROVE  report' \in Reports /\ (IsFill(report') => report'.order \in Keys)
BY SnapshotType DEF Typing, TypeOK

LEMMA SubmitTyping ==
  ASSUME Typing, Submit
  PROVE  Typing'
<1> DEFINE i == mem.intent[proposal.key]
<1>1. pc = "submit" /\ proposal \in Proposals /\ proposal.key \in Keys
  BY KernelAssumption DEF Submit, At, Typing, Situation, HandlerSteps, Steps, ProposalType
<1>2. i \in Intents /\ i.key \in Keys
  BY <1>1 DEF Typing, TypeOK, Situation, KernelStates, IntentSteps, Intents
<1>3. UNCHANGED <<proposal, result, controlVars, mem, ledger, restarts, order, shares, spent>>
  BY DEF Submit
<1>4. CASE order[i.key] # None
  <2>1. report' = Snapshot(i.key) /\ pc' = "record" /\ UNCHANGED <<wire, posts>>
    BY <1>4 DEF Submit, Goto
  <2>2. report' \in Reports /\ (IsFill(report') => report'.order \in Keys)
    BY <1>2, <1>4, <2>1, AnswerTyping
  <2> QED BY <1>1, <1>3, <2>1, <2>2
          DEF Typing, TypeOK, Situation, controlVars, Steps, HandlerSteps, IntentSteps, ReportSteps
<1>5. CASE order[i.key] = None
  <2>1. /\ wire' = [wire EXCEPT ![i.key] = i]
        /\ posts' = [posts EXCEPT ![i.key] = @ + 1]
        /\ pc' = "posted" /\ report' = report
    BY <1>5 DEF Submit, Goto
  <2>2. wire' \in [Keys -> Intents \cup {None}] /\ posts' \in [Keys -> Nat]
    BY <1>2, <2>1 DEF Typing, TypeOK
  <2> QED BY <1>1, <1>3, <2>1, <2>2
          DEF Typing, TypeOK, Situation, controlVars, Steps, HandlerSteps, IntentSteps, ReportSteps
<1> QED BY <1>4, <1>5

LEMMA ReplyTyping ==
  ASSUME Typing, ReplyKnown \/ ReplyUnknown
  PROVE  Typing'
<1> DEFINE i == mem.intent[proposal.key]
<1>1. pc = "posted" /\ proposal \in Proposals /\ proposal.key \in Keys
  BY KernelAssumption
     DEF ReplyKnown, ReplyUnknown, At, Typing, Situation, HandlerSteps, Steps, ProposalType
<1>2. i \in Intents
  BY <1>1 DEF Typing, TypeOK, Situation, KernelStates, IntentSteps
<1>3. /\ pc' = "record"
      /\ UNCHANGED <<proposal, result, controlVars, mem, ledger, restarts, posts, venueVars>>
  BY DEF ReplyKnown, ReplyUnknown, Goto
<1>4. report' \in Reports /\ (IsFill(report') => report'.order \in Keys)
  <2>1. CASE ReplyKnown
    BY <1>1, <2>1, AnswerTyping DEF ReplyKnown
  <2>2. CASE ReplyUnknown
    <3>1. <<"unknown", i.key, "UNKNOWN", 0>> \in ReportIds
      BY <1>2 DEF ReportIds, Intents, OrderStatus
    <3> QED BY <1>2, <2>2, <3>1
            DEF ReplyUnknown, UnknownReport, Reports, Intents, OrderStatus, IsFill, FillStates
  <2> QED BY <2>1, <2>2
<1> QED BY <1>1, <1>3, <1>4
        DEF Typing, TypeOK, Situation, controlVars, venueVars, Steps,
            HandlerSteps, IntentSteps, ReportSteps

LEMMA RecordType ==
  ASSUME Typing, pc \in ReportSteps, Record(report)
  PROVE  mem' \in KernelStates /\ ledger' \in KernelStates /\ mem'.intent = mem.intent
<1>1. report \in Reports /\ (IsFill(report) => report.order \in Keys)
  BY DEF Typing, Situation
<1>2. CASE report.id \in mem.seen
  BY <1>2 DEF Record, Typing, TypeOK
<1>3. CASE report.id \notin mem.seen
  <2>1. mem' = HydratedReport(mem, report) /\ ledger' = HydratedReport(ledger, report)
    BY <1>3 DEF Record, HydratedReport, Typing, TypeOK, KernelStates
  <2>2. mem' \in KernelStates /\ ledger' \in KernelStates
    BY <1>1, <2>1, HydratedReportType DEF Typing, TypeOK
  <2>3. mem'.intent = mem.intent
    BY <2>1 DEF HydratedReport, Typing, TypeOK, KernelStates
  <2> QED BY <2>2, <2>3
<1> QED BY <1>2, <1>3

LEMMA RecordReportTyping ==
  ASSUME Typing, RecordSubmission
  PROVE  Typing'
<1>1. /\ pc = "record" /\ Record(report) /\ pc' = "settle"
      /\ UNCHANGED <<proposal, report, result, controlVars, restarts, posts, venueVars>>
  BY DEF RecordSubmission, RecordReport, At, Goto
<1>2. mem' \in KernelStates /\ ledger' \in KernelStates /\ mem'.intent = mem.intent
  BY <1>1, RecordType DEF ReportSteps
<1> QED BY <1>1, <1>2
        DEF Typing, TypeOK, Situation, controlVars, venueVars, Steps,
            HandlerSteps, IntentSteps, ReportSteps

LEMMA SettleTyping ==
  ASSUME Typing, NEW from \in {"settle", "reconcile_settle"}, NEW skipped \in BOOLEAN,
         Settle(from, skipped)
  PROVE  Typing'
<1>1. pc = from /\ report \in Reports /\ report.key \in Keys
  BY DEF Settle, At, Typing, Situation, ReportSteps, Reports
<1>2. Normalise(report.status) \in OrderStatus
  BY DEF Normalise, OrderStatus
<1>3. UNCHANGED <<kill, restarts, posts, venueVars>>
  BY DEF Settle
<1>4. CASE Accepts(mem.status[report.key], Normalise(report.status))
  <2>1. /\ Transition(report.key, Normalise(report.status))
        /\ Return(IF skipped \/ Replayable(mem.book) THEN result ELSE "RAISED")
        /\ mode' = mode
    BY <1>4 DEF Settle
  <2>2. mem' \in KernelStates /\ ledger' \in KernelStates
    BY <1>1, <1>2, <2>1, TransitionType DEF Typing
  <2>3. (IF skipped \/ Replayable(mem.book) THEN result ELSE "RAISED") \in Results
    BY DEF Typing, TypeOK, Results
  <2> QED BY <1>3, <2>1, <2>2, <2>3, ReturnTyping DEF Typing, TypeOK
<1>5. CASE ~Accepts(mem.status[report.key], Normalise(report.status))
  BY <1>3, <1>5, RaiseTyping DEF Settle
<1> QED BY <1>4, <1>5

\* An order put in another state is the same order.
LEMMA InStateOrder ==
  ASSUME NEW o \in VenueOrders, NEW st \in LiveStates \cup ClosedStates
  PROVE  /\ InState(o, st) \in VenueOrders /\ InState(o, st) # None
         /\ InState(o, st).st = st /\ InState(o, st).symbol = o.symbol
         /\ InState(o, st).side = o.side /\ InState(o, st).size = o.size
         /\ InState(o, st).filled = o.filled /\ InState(o, st).gross = o.gross
         /\ (InState(o, st).resumed <=> o.resumed \/ o.st = "suspended")
<1>1. InState(o, st) \in VenueOrders
  BY DEF InState, VenueOrders
<1> QED BY <1>1, NoneAssumption DEF InState, VenueOrders

\* The exchange, of itself or at the program's request, puts order k in the state st.
Shift(k, st) ==
  /\ st \in (LiveStates \cup ClosedStates) \ {"filled"}
  /\ Live(k) /\ SetState(k, st)
  /\ st \in {"canceled", "rejected"} => order[k].filled = 0 \/ CancelsAfterFills
  /\ st = "new" => order[k].filled = 0
  /\ st = "partially_filled" => order[k].filled # 0
  /\ st = "suspended" => "suspended" \in Detours

LEMMA VenueMovesOrder ==
  ASSUME NEW k \in Keys, VenueStep(k)
  PROVE  \/ Arrive(k) \/ Vanish(k)
         \/ \E px \in FillPrices : Fill(k, px)
         \/ \E st : Shift(k, st)
<1>1. CASE Cancelled(k)
  <2>1. Shift(k, "canceled")
    BY <1>1 DEF Cancelled, Closable, Shift, ClosedStates
  <2> QED BY <2>1
<1>2. CASE Decline(k)
  <2>1. Shift(k, "rejected")
    BY <1>2 DEF Decline, Closable, Shift, ClosedStates
  <2> QED BY <2>1
<1>3. CASE Divert(k)
  <2>1. PICK st \in Detours : Live(k) /\ SetState(k, st)
    BY <1>3 DEF Divert
  <2>2. Shift(k, st)
    BY <2>1, DetoursAssumption DEF Shift, LiveStates, DetourStates
  <2> QED BY <2>2
<1>4. CASE Resume(k)
  <2> DEFINE st == IF order[k].filled = 0 THEN "new" ELSE "partially_filled"
  <2>1. Shift(k, st)
    BY <1>4 DEF Resume, Shift, LiveStates
  <2> QED BY <2>1
<1> QED BY <1>1, <1>2, <1>3, <1>4 DEF VenueStep, VenueWorks

LEMMA CancelMovesOrder ==
  ASSUME NEW t, t = proposal.target, SendCancel
  PROVE  (\E st : Shift(t, st)) \/ UNCHANGED venueVars
<1>1. CASE Cancelled(t)
  <2>1. Shift(t, "canceled")
    BY <1>1 DEF Cancelled, Closable, Shift, ClosedStates
  <2> QED BY <2>1
<1>2. CASE Live(t) /\ SetState(t, "pending_cancel")
  <2>1. Shift(t, "pending_cancel")
    BY <1>2 DEF Shift, LiveStates, DetourStates
  <2> QED BY <2>1
<1> QED BY <1>1, <1>2 DEF SendCancel

LEMMA ShiftOrder ==
  ASSUME TypeOK, NEW k \in Keys, NEW st, Shift(k, st)
  PROVE  /\ order[k] # None /\ order[k] \in VenueOrders /\ order[k].st \in LiveStates
         /\ st \in LiveStates \cup ClosedStates
         /\ order' = [order EXCEPT ![k] = InState(order[k], st)]
         /\ order'[k] = InState(order[k], st)
         /\ \A j \in Keys \ {k} : order'[j] = order[j]
         /\ UNCHANGED <<wire, shares, spent>>
BY DEF Shift, Live, SetState, TypeOK

\* The states a fill may leave an order in.
FillResults == {"filled", "partially_filled", "pending_cancel", "pending_replace", "held"}

LEMMA FillOrder ==
  ASSUME NEW k \in Keys, NEW px, Fill(k, px)
  PROVE  \E st \in FillResults :
           /\ order' = [order EXCEPT ![k] = [order[k] EXCEPT !.st = st, !.filled = @ + 1,
                                                             !.gross = @ + px]]
           /\ st = "filled" <=> order[k].filled + 1 = order[k].size
<1>1. order[k].st \in LiveStates \ {"suspended"}
  BY DEF Fill, Live
<1> QED BY <1>1 DEF Fill, FillResults, LiveStates, DetourStates

\* The exchange keeps its own types and forgets no order.
LEMMA SetStateType ==
  ASSUME TypeOK, NEW k \in Keys, NEW st, Shift(k, st)
  PROVE  /\ order' \in [Keys -> VenueOrders \cup {None}]
         /\ \A j \in Keys : order[j] # None => order'[j] # None
         /\ UNCHANGED <<wire, shares, spent>>
<1>1. InState(order[k], st) \in VenueOrders /\ InState(order[k], st) # None
  BY ShiftOrder, InStateOrder
<1> QED BY <1>1, ShiftOrder DEF TypeOK

LEMMA FillType ==
  ASSUME TypeOK, NEW k \in Keys, NEW px \in FillPrices, Fill(k, px)
  PROVE  /\ order' \in [Keys -> VenueOrders \cup {None}]
         /\ shares' \in [Symbols -> Int] /\ spent' \in Int /\ wire' = wire
         /\ \A j \in Keys : order[j] # None => order'[j] # None
<1> DEFINE o == order[k]
           sign == IF o.side = "BUY" THEN 1 ELSE -1
<1>1. o \in VenueOrders /\ px \in Nat
  BY FillPricesAssumption DEF Fill, Live, TypeOK
<1>2. PICK st \in FillResults :
        order' = [order EXCEPT ![k] = [o EXCEPT !.st = st, !.filled = @ + 1, !.gross = @ + px]]
  BY FillOrder
<1>3. [o EXCEPT !.st = st, !.filled = @ + 1, !.gross = @ + px] \in VenueOrders
  <2> HIDE DEF o
  <2>1. o.filled + 1 \in Nat /\ o.gross + px \in Nat
    BY <1>1 DEF VenueOrders
  <2> QED BY <1>1, <2>1 DEF VenueOrders, LiveStates, DetourStates, ClosedStates, FillResults
<1>4. shares' = [shares EXCEPT ![o.symbol] = @ + sign] /\ spent' = spent + sign * px /\ wire' = wire
  BY DEF Fill
<1>5. sign \in Int /\ sign * px \in Int
  BY <1>1
<1>6. o.symbol \in Symbols
  BY <1>1 DEF VenueOrders
<1> HIDE DEF sign, o
<1>7. shares' \in [Symbols -> Int] /\ spent' \in Int
  BY <1>4, <1>5, <1>6 DEF TypeOK
<1> QED BY <1>2, <1>3, <1>4, <1>7, NoneAssumption DEF TypeOK, o

LEMMA VenueStepType ==
  ASSUME TypeOK, NEW k \in Keys, VenueStep(k)
  PROVE  /\ wire' \in [Keys -> Intents \cup {None}]
         /\ order' \in [Keys -> VenueOrders \cup {None}]
         /\ shares' \in [Symbols -> Int] /\ spent' \in Int
         /\ \A j \in Keys : order[j] # None => order'[j] # None
<1>1. CASE Arrive(k)
  <2> DEFINE new == [st |-> "new", symbol |-> wire[k].symbol, side |-> wire[k].side,
                     size |-> wire[k].qty, filled |-> 0, gross |-> 0, resumed |-> FALSE]
  <2>1. wire[k] \in Intents
    BY <1>1 DEF Arrive, TypeOK
  <2>2. new \in VenueOrders
    BY <2>1 DEF Intents, VenueOrders, LiveStates, DetourStates
  <2>3. order' = [order EXCEPT ![k] = new] /\ wire' = [wire EXCEPT ![k] = None]
        /\ UNCHANGED <<shares, spent>>
    BY <1>1 DEF Arrive
  <2> HIDE DEF new
  <2> QED BY <2>2, <2>3, NoneAssumption DEF TypeOK
<1>2. CASE Vanish(k)
  BY <1>2 DEF Vanish, TypeOK
<1>3. CASE \E px \in FillPrices : Fill(k, px)
  BY <1>3, FillType DEF TypeOK
<1>4. CASE \E st : Shift(k, st)
  BY <1>4, SetStateType DEF TypeOK
<1> QED BY <1>1, <1>2, <1>3, <1>4, VenueMovesOrder

LEMMA VenueActsTyping ==
  ASSUME Typing, VenueActs
  PROVE  Typing'
<1>1. PICK k \in Keys : VenueStep(k)
  BY DEF VenueActs
<1>2. /\ wire' \in [Keys -> Intents \cup {None}]
      /\ order' \in [Keys -> VenueOrders \cup {None}]
      /\ shares' \in [Symbols -> Int] /\ spent' \in Int
      /\ \A j \in Keys : order[j] # None => order'[j] # None
  BY <1>1, VenueStepType DEF Typing
<1>3. UNCHANGED kernelVars
  BY DEF VenueActs
<1>4. TypeOK'
  BY <1>2, <1>3 DEF Typing, TypeOK, kernelVars, processVars, controlVars
<1>5. ASSUME pc = "cancel_reply" PROVE order'[proposal.target] # None
  <2>1. proposal \in ProposalType /\ proposal.target # None /\ order[proposal.target] # None
    BY <1>5, KernelAssumption DEF Typing, Situation, HandlerSteps, Steps
  <2> QED BY <1>2, <2>1 DEF ProposalType
<1>6. Situation'
  BY <1>3, <1>5 DEF Typing, Situation, kernelVars, processVars
<1> QED BY <1>4, <1>6 DEF Typing

LEMMA SendCancelTyping ==
  ASSUME Typing, SendCancel
  PROVE  Typing'
<1> DEFINE k == proposal.target
<1>1. pc = "cancel" /\ proposal \in Proposals /\ k \in Keys /\ order[k] # None
  BY KernelAssumption DEF SendCancel, At, Typing, Situation, HandlerSteps, Steps, ProposalType
<1>2. /\ pc' = "cancel_reply"
      /\ UNCHANGED <<proposal, report, result, controlVars, mem, ledger, restarts, posts>>
  BY DEF SendCancel, Goto
<1> HIDE DEF k
<1>3. /\ order' \in [Keys -> VenueOrders \cup {None}]
      /\ \A j \in Keys : order[j] # None => order'[j] # None
      /\ UNCHANGED <<wire, shares, spent>>
  <2>1. CASE \E st : Shift(k, st)
    BY <1>1, <2>1, SetStateType DEF Typing
  <2>2. CASE UNCHANGED venueVars
    BY <2>2 DEF venueVars, Typing, TypeOK
  <2> QED BY <2>1, <2>2, CancelMovesOrder DEF k
<1> QED BY <1>1, <1>2, <1>3
        DEF Typing, TypeOK, Situation, controlVars, Steps,
            HandlerSteps, IntentSteps, ReportSteps, k

LEMMA CancelReplyTyping ==
  ASSUME Typing, CancelReply
  PROVE  Typing'
<1> DEFINE after == Snapshot(proposal.target)
           original == mem.linked[proposal.target]
           closing == Confirmed(after.status) /\ original # None
           noted == [after EXCEPT !.id = <<"cancel", after.order, proposal.key, 0>>,
                                  !.key = proposal.key,
                                  !.status = IF Confirmed(@) THEN @ ELSE "UNKNOWN",
                                  !.qty = 0, !.gross = 0]
<1>1. /\ pc = "cancel_reply" /\ proposal \in Proposals
      /\ proposal.key \in Keys /\ proposal.target \in Keys /\ order[proposal.target] # None
  BY KernelAssumption DEF CancelReply, At, Typing, Situation, HandlerSteps, Steps, ProposalType
<1>2. after \in Reports /\ after.order = proposal.target
  BY <1>1, SnapshotType DEF Typing, TypeOK
<1>3. original \in Keys \cup {None}
  BY <1>1 DEF Typing, TypeOK, KernelStates
<1>4. UNCHANGED <<kill, restarts, posts, venueVars>>
  BY DEF CancelReply
<1>5. CASE closing /\ ~Accepts(mem.status[original], "CANCELLED")
  BY <1>4, <1>5, RaiseTyping DEF CancelReply
<1>6. CASE ~(closing /\ ~Accepts(mem.status[original], "CANCELLED"))
  <2>1. /\ IF closing THEN Transition(original, "CANCELLED") ELSE UNCHANGED <<mem, ledger>>
        /\ IF Confirmed(after.status) THEN UNCHANGED mode ELSE EnterSafeMode
        /\ report' = noted /\ pc' = "cancel_record" /\ UNCHANGED <<proposal, result>>
    BY <1>6 DEF CancelReply, Goto
  <2> HIDE DEF after, original
  <2>2. mem' \in KernelStates /\ ledger' \in KernelStates
    BY <1>3, <2>1, TransitionType DEF Typing, TypeOK, OrderStatus
  <2>3. mode' \in ExperimentMode
    BY <2>1, SafeFromType DEF EnterSafeMode, Typing, TypeOK
  <2>4. noted \in Reports /\ ~IsFill(noted)
    <3>1. <<"cancel", after.order, proposal.key, 0>> \in ReportIds
      BY <1>1, <1>2 DEF ReportIds
    <3>2. (IF Confirmed(after.status) THEN after.status ELSE "UNKNOWN") \in OrderStatus \ FillStates
      BY DEF Confirmed, OrderStatus, FillStates
    <3> QED BY <1>1, <1>2, <3>1, <3>2 DEF Reports, IsFill
  <2> HIDE DEF noted
  <2> QED BY <1>1, <1>4, <2>1, <2>2, <2>3, <2>4
          DEF Typing, TypeOK, Situation, venueVars, Steps, HandlerSteps, IntentSteps, ReportSteps
<1> QED BY <1>5, <1>6

LEMMA RecordCancellationTyping ==
  ASSUME Typing, RecordCancellation
  PROVE  Typing'
<1>1. /\ Record(report) /\ pc = "cancel_record"
      /\ Return(IF Replayable(mem.book) THEN result ELSE "RAISED")
      /\ UNCHANGED <<controlVars, restarts, posts, venueVars>>
  BY DEF RecordCancellation, At
<1>2. mem' \in KernelStates /\ ledger' \in KernelStates
  BY <1>1, RecordType DEF ReportSteps
<1>3. (IF Replayable(mem.book) THEN result ELSE "RAISED") \in Results
  BY DEF Typing, TypeOK, Results
<1> QED BY <1>1, <1>2, <1>3, ReturnTyping DEF controlVars, Typing, TypeOK

LEMMA LookUpTyping ==
  ASSUME Typing, NEW k \in Keys, LookUp(k)
  PROVE  Typing'
<1>1. report' \in Reports /\ (IsFill(report') => report'.order \in Keys)
  BY AnswerTyping DEF LookUp
<1>2. /\ pc' = "reconcile" /\ result' = None
      /\ UNCHANGED <<proposal, controlVars, mem, ledger, restarts, posts, venueVars>>
  BY DEF LookUp, Goto
<1> QED BY <1>1, <1>2
        DEF Typing, TypeOK, Situation, controlVars, venueVars, Steps, Results,
            HandlerSteps, IntentSteps, ReportSteps

LEMMA ForeignReportTyping ==
  ASSUME Typing, NEW k \in Keys, NEW claimed \in Keys, ForeignReport(k, claimed)
  PROVE  Typing'
<1>1. /\ order[k] # None /\ pc' = "reconcile" /\ result' = None
      /\ UNCHANGED <<proposal, controlVars, mem, ledger, restarts, posts, venueVars>>
  BY DEF ForeignReport, Goto
<1>2. PICK currency \in {AccountCurrency, None} :
        report' = [Snapshot(k) EXCEPT !.key = claimed, !.currency = currency]
  BY DEF ForeignReport
<1>3. Snapshot(k) \in Reports /\ Snapshot(k).order = k
  BY <1>1, SnapshotType DEF Typing, TypeOK
<1>4. report' \in Reports /\ report'.order = k
  BY <1>2, <1>3 DEF Reports
<1> QED BY <1>1, <1>4
        DEF Typing, TypeOK, Situation, controlVars, venueVars, Steps, Results,
            HandlerSteps, IntentSteps, ReportSteps

LEMMA ReconcileTyping ==
  ASSUME Typing, Reconcile
  PROVE  Typing'
<1>1. pc = "reconcile" /\ UNCHANGED <<kill, restarts, posts, venueVars>>
  BY DEF Reconcile, At
<1>2. CASE Recognised(mem, report)
  <2>1. Record(report) /\ pc' = "reconcile_settle" /\ UNCHANGED <<proposal, report, result, mode>>
    BY <1>2 DEF Reconcile, Goto
  <2>2. mem' \in KernelStates /\ ledger' \in KernelStates
    BY <1>1, <2>1, RecordType DEF ReportSteps
  <2> QED BY <1>1, <2>1, <2>2
          DEF Typing, TypeOK, Situation, venueVars, Steps, HandlerSteps, IntentSteps, ReportSteps
<1>3. CASE ~Recognised(mem, report)
  BY <1>1, <1>3, RaiseTyping DEF Reconcile
<1> QED BY <1>2, <1>3

LEMMA ProcessTyping ==
  ASSUME Typing, Start \/ Stop \/ Crash \/ \E next \in OwnerModes : SetMode(next)
  PROVE  Typing'
<1>1. EmptyBook \in Books
  BY StartingCashAssumption DEF EmptyBook, Books
<1>2. EmptyState \in KernelStates
  BY <1>1 DEF EmptyState, KernelStates, OrderStatus
<1>3. CASE Start
  BY <1>3, KernelAssumption
     DEF Start, At, Goto, Typing, TypeOK, Situation, venueVars, Steps,
         HandlerSteps, IntentSteps, ReportSteps
<1>4. CASE Crash
  <2>1. restarts' \in Nat
    BY <1>4 DEF Crash, Typing, TypeOK
  <2> QED BY <1>2, <1>4, <2>1
          DEF Crash, Goto, Typing, TypeOK, Situation, controlVars, venueVars, Steps, Results,
              HandlerSteps, IntentSteps, ReportSteps
<1>5. CASE Stop
  <2>1. mode' \in ExperimentMode
    BY <1>5, SafeFromType DEF Stop, Typing, TypeOK
  <2> QED BY <1>2, <1>5, <2>1
          DEF Stop, Goto, Typing, TypeOK, Situation, venueVars, Steps, Results,
              HandlerSteps, IntentSteps, ReportSteps
<1>6. CASE \E next \in OwnerModes : SetMode(next)
  BY <1>6, KernelAssumption
     DEF SetMode, Typing, TypeOK, Situation, processVars, venueVars
<1> QED BY <1>3, <1>4, <1>5, <1>6

LEMMA NextTyping ==
  ASSUME Typing, [Next]_vars
  PROVE  Typing'
<1>1. CASE HandleProposal
  <2>1. CASE Validate \/ MarkSubmitting
    BY <2>1, AdvanceTyping DEF Validate, MarkSubmitting, OrderStatus
  <2>2. CASE SubmitRaises \/ ReplyRaises
    BY <2>2, RaiseTyping DEF SubmitRaises, ReplyRaises
  <2>3. CASE SettleSubmission
    BY <2>3, SettleTyping DEF SettleSubmission
  <2> QED BY <1>1, <2>1, <2>2, <2>3, ReceiveTyping, DecideTyping, CreateIntentTyping,
             SubmitTyping, ReplyTyping, RecordReportTyping DEF HandleProposal
<1>2. CASE HandleCancel
  <2>1. CASE CancelRaises
    BY <2>1, RaiseTyping DEF CancelRaises
  <2> QED BY <1>2, <2>1, SendCancelTyping, CancelReplyTyping, RecordCancellationTyping
          DEF HandleCancel
<1>3. CASE ReconcileReport
  <2>1. CASE SettleReconciliation
    BY <2>1, SettleTyping DEF SettleReconciliation
  <2> QED BY <1>3, <2>1, LookUpTyping, ReconcileTyping DEF ReconcileReport
<1>4. CASE UNCHANGED vars
  BY <1>4 DEF vars, kernelVars, processVars, controlVars, venueVars, Typing, TypeOK, Situation
<1> QED BY <1>1, <1>2, <1>3, <1>4, ForeignReportTyping, ProcessTyping, VenueActsTyping DEF Next

\* Every variable has its type in every reachable state: in particular no sequence of
\* reports makes a position or an applied fill negative.
THEOREM TypeCorrect == Spec => []TypeOK
<1>1. Typing /\ [Next]_vars => Typing'
  BY NextTyping
<1>2. Typing => TypeOK
  BY DEF Typing
<1> QED BY InitTyping, <1>1, <1>2, PTL DEF Spec

-----------------------------------------------------------------------------
(* Memory and ledger.                                                      *)

Durable == pc # "down" => mem = ledger

LEMMA TransitionDurable ==
  ASSUME TypeOK, mem = ledger, NEW k \in Keys, NEW to \in OrderStatus, Transition(k, to)
  PROVE  mem' = ledger'
<1>1. CASE mem.status[k] = to
  <2>1. mem' = [mem EXCEPT !.status[k] = to] /\ ledger' = ledger
    BY <1>1 DEF Transition
  <2>2. [mem.status EXCEPT ![k] = to] = mem.status
    BY <1>1 DEF TypeOK, KernelStates
  <2>3. [mem EXCEPT !.status = mem.status] = mem
    BY DEF TypeOK, KernelStates
  <2> QED BY <2>1, <2>2, <2>3
<1>2. CASE mem.status[k] # to
  BY <1>2 DEF Transition, HydratedTransition
<1> QED BY <1>1, <1>2

LEMMA RecordDurable ==
  ASSUME TypeOK, mem = ledger, NEW r, Record(r)
  PROVE  mem' = ledger'
<1>1. CASE r.id \in mem.seen
  BY <1>1 DEF Record
<1>2. CASE r.id \notin mem.seen
  <2>1. mem' = [mem EXCEPT !.known  = @ \cup {r.key},
                           !.seen   = @ \cup {r.id},
                           !.linked = Linked(mem, r),
                           !.book   = ApplyReport(@, r)]
    BY <1>2 DEF Record
  <2>2. ledger' = HydratedReport(mem, r)
    BY <1>2 DEF Record
  <2>3. HydratedReport(mem, r) = [mem EXCEPT !.known  = @ \cup {r.key},
                           !.seen   = @ \cup {r.id},
                           !.linked = Linked(mem, r),
                           !.book   = ApplyReport(@, r)]
    BY <1>2 DEF HydratedReport, TypeOK, KernelStates
  <2> QED BY <2>1, <2>2, <2>3
<1> QED BY <1>1, <1>2

LEMMA NextDurable ==
  ASSUME Typing, Durable, [Next]_vars
  PROVE  Durable'
<1> USE DEF Durable
<1>1. ASSUME NEW p \in Proposals, Receive(p) PROVE Durable'
  BY <1>1 DEF Receive, At, HydratedProposal
<1>2. CASE Decide
  <2>1. mem = ledger
    BY <1>2 DEF Decide, At
  <2> QED BY <1>2, <2>1 DEF Decide, HydratedDecision
<1>3. CASE CreateIntent
  <2> DEFINE i == DerivedIntent(mem, proposal)
  <2>1. mem = ledger
    BY <1>3 DEF CreateIntent, At
  <2>2. /\ mem' = [mem EXCEPT !.intent[i.key] = i, !.status[i.key] = "CREATED"]
        /\ ledger' = HydratedTransition(HydratedIntent(ledger, i), i.key, "CREATED")
    BY <1>3 DEF CreateIntent
  <2> HIDE DEF i
  <2> QED BY <2>1, <2>2 DEF HydratedTransition, HydratedIntent, Typing, TypeOK, KernelStates
<1>4. ASSUME NEW from \in {"validate", "mark_submitting"}, NEW to \in OrderStatus,
             NEW next \in {"mark_submitting", "submit"}, Advance(from, to, next)
      PROVE  Durable'
  <2>1. pc = from /\ mem = ledger /\ proposal \in Proposals /\ proposal.key \in Keys
    BY <1>4, KernelAssumption
       DEF Advance, At, Typing, Situation, HandlerSteps, Steps, ProposalType
  <2> QED BY <1>4, <2>1, TransitionDurable DEF Advance, Typing
<1>5. ASSUME RecordSubmission \/ RecordCancellation \/ Reconcile PROVE Durable'
  <2>1. mem = ledger
    BY <1>5 DEF RecordSubmission, RecordReport, RecordCancellation, Reconcile, At
  <2>2. Record(report) \/ UNCHANGED <<mem, ledger>>
    BY <1>5 DEF RecordSubmission, RecordReport, RecordCancellation, Reconcile
  <2> QED BY <2>1, <2>2, RecordDurable DEF Typing
<1>6. ASSUME NEW from \in {"settle", "reconcile_settle"}, NEW skipped, Settle(from, skipped)
      PROVE  Durable'
  <2>1. pc = from /\ mem = ledger /\ report \in Reports /\ report.key \in Keys
    BY <1>6 DEF Settle, At, Typing, Situation, ReportSteps, Reports
  <2>2. Normalise(report.status) \in OrderStatus
    BY DEF Normalise, OrderStatus
  <2>3. Transition(report.key, Normalise(report.status)) \/ UNCHANGED <<mem, ledger>>
    BY <1>6 DEF Settle
  <2> QED BY <2>1, <2>2, <2>3, TransitionDurable DEF Typing
<1>7. CASE CancelReply
  <2> DEFINE original == mem.linked[proposal.target]
  <2>1. /\ pc = "cancel_reply" /\ mem = ledger /\ proposal \in Proposals
        /\ proposal.target \in Keys
    BY <1>7, KernelAssumption
       DEF CancelReply, At, Typing, Situation, HandlerSteps, Steps, ProposalType
  <2>2. \/ original \in Keys /\ Transition(original, "CANCELLED")
        \/ UNCHANGED <<mem, ledger>>
    <3>1. original \in Keys \cup {None}
      BY <2>1 DEF Typing, TypeOK, KernelStates
    <3> QED BY <1>7, <3>1 DEF CancelReply
  <2> QED BY <2>1, <2>2, TransitionDurable DEF Typing, OrderStatus
<1>8. CASE Start
  BY <1>8 DEF Start
<1>9. CASE Stop \/ Crash
  BY <1>9 DEF Stop, Crash, Goto
<1>10. ASSUME \/ SubmitRaises \/ Submit \/ ReplyKnown \/ ReplyUnknown \/ ReplyRaises
              \/ SendCancel \/ CancelRaises
              \/ \E k \in Keys : LookUp(k)
              \/ \E k, claimed \in Keys : ForeignReport(k, claimed)
              \/ \E next \in OwnerModes : SetMode(next)
       PROVE  Durable'
  BY <1>10 DEF SubmitRaises, Submit, ReplyKnown, ReplyUnknown, ReplyRaises, SendCancel,
               CancelRaises, LookUp, ForeignReport, SetMode, At
<1>11. CASE VenueActs \/ UNCHANGED vars
  BY <1>11 DEF VenueActs, vars, kernelVars, processVars
<1>12. CASE HandleProposal
  BY <1>12, <1>1, <1>2, <1>3, <1>4, <1>5, <1>6, <1>10
     DEF HandleProposal, Validate, MarkSubmitting, SettleSubmission, OrderStatus
<1>13. CASE HandleCancel
  BY <1>13, <1>5, <1>7, <1>10 DEF HandleCancel
<1>14. CASE ReconcileReport
  BY <1>14, <1>5, <1>6, <1>10 DEF ReconcileReport, SettleReconciliation
<1> QED BY <1>8, <1>9, <1>10, <1>11, <1>12, <1>13, <1>14 DEF Next

\* A restart loses nothing: at every step of every handler, hydrating from the ledger gives
\* exactly the fields the kernel holds (ExecutionKernel._hydrate_from_ledger).
THEOREM Restart == Spec => []RestartLosesNothing
<1>1. Init => Durable
  BY DEF Init, Durable
<1>2. Typing /\ Durable /\ [Next]_vars => Typing' /\ Durable'
  BY NextTyping, NextDurable
<1>3. Durable => RestartLosesNothing
  BY DEF Durable, RestartLosesNothing
<1> QED BY InitTyping, <1>1, <1>2, <1>3, PTL DEF Spec

-----------------------------------------------------------------------------
(* What left the process.                                                  *)

\* The steps from the approval of an order to its submission.
EarlySteps == {"create_intent", "validate", "mark_submitting", "submit"}

\* Order k, at the exchange or on its way there, is the recorded one.
AsRecorded(k) ==
  /\ wire[k] # None => wire[k] = ledger.intent[k]
  /\ order[k] # None => /\ order[k].size = ledger.intent[k].qty
                        /\ order[k].side = ledger.intent[k].side

\* What was posted is known, recorded and past VALIDATED; an approved order is not posted yet.
Submission ==
  /\ \A k \in Keys : ledger.intent[k] # None => k \in ledger.known /\ ledger.intent[k].key = k
  /\ \A k \in Keys : posts[k] # 0 => /\ posts[k] = 1
                                     /\ k \in ledger.known
                                     /\ ledger.intent[k] # None
                                     /\ ledger.status[k] \notin {"CREATED", "VALIDATED"}
  /\ \A k \in Keys : wire[k] # None \/ order[k] # None => posts[k] # 0 /\ AsRecorded(k)
  /\ pc \in EarlySteps => proposal.key \in ledger.known /\ posts[proposal.key] = 0
  /\ pc = "submit" => ledger.status[proposal.key] = "SUBMITTING"

\* Steps that post nothing, leave the exchange alone and are not on the way to a submission.
LEMMA QuietSubmission ==
  ASSUME Submission, UNCHANGED <<posts, wire, order>>, pc' \notin EarlySteps,
         ledger.known \subseteq ledger'.known, ledger'.intent = ledger.intent,
         \A k \in Keys : \/ ledger'.status[k] = ledger.status[k]
                         \/ ledger'.status[k] \notin {"CREATED", "VALIDATED"}
  PROVE  Submission'
<1>1. ASSUME NEW k \in Keys, posts'[k] # 0
      PROVE  /\ posts'[k] = 1 /\ k \in ledger'.known /\ ledger'.intent[k] # None
             /\ ledger'.status[k] \notin {"CREATED", "VALIDATED"}
  BY <1>1 DEF Submission
<1>2. ASSUME NEW k \in Keys, wire'[k] # None \/ order'[k] # None
      PROVE  posts'[k] # 0 /\ AsRecorded(k)'
  BY <1>2 DEF Submission, AsRecorded
<1>3. ASSUME NEW k \in Keys, ledger'.intent[k] # None
      PROVE  k \in ledger'.known /\ ledger'.intent[k].key = k
  BY <1>3 DEF Submission
<1> QED BY <1>1, <1>2, <1>3 DEF Submission, EarlySteps

\* Recording a report only adds to what the ledger knows.
LEMMA RecordKnown ==
  ASSUME TypeOK, NEW r \in Reports, Record(r)
  PROVE  /\ ledger.known \subseteq ledger'.known
         /\ ledger'.intent = ledger.intent /\ ledger'.status = ledger.status
<1>1. CASE ledger' = ledger
  BY <1>1
<1>2. CASE ledger' = HydratedReport(ledger, r)
  BY <1>2 DEF HydratedReport, TypeOK, KernelStates
<1> QED BY <1>1, <1>2 DEF Record

\* A transition changes the status of one order.
LEMMA TransitionStatus ==
  ASSUME TypeOK, mem = ledger, NEW j \in Keys, NEW to \in OrderStatus, Transition(j, to)
  PROVE  /\ ledger'.known = ledger.known /\ ledger'.intent = ledger.intent
         /\ ledger'.linked = ledger.linked
         /\ ledger'.status = [ledger.status EXCEPT ![j] = to]
<1>1. CASE mem.status[j] = to
  <2>1. [ledger.status EXCEPT ![j] = to] = ledger.status
    BY <1>1 DEF TypeOK, KernelStates
  <2> QED BY <1>1, <2>1 DEF Transition
<1>2. CASE mem.status[j] # to
  BY <1>2 DEF Transition, HydratedTransition, TypeOK, KernelStates
<1> QED BY <1>1, <1>2

\* The order keeps its size and side at the exchange, and no order appears but from the wire.
LEMMA VenueSubmission ==
  ASSUME Typing, Submission, NEW k \in Keys, VenueStep(k), UNCHANGED <<ledger, posts>>
  PROVE  \A j \in Keys : wire'[j] # None \/ order'[j] # None => posts'[j] # 0 /\ AsRecorded(j)'
<1>1. TypeOK
  BY DEF Typing
<1>2. \/ /\ wire[k] # None
         /\ \/ /\ order' = [order EXCEPT ![k] =
                              [st |-> "new", symbol |-> wire[k].symbol, side |-> wire[k].side,
                               size |-> wire[k].qty, filled |-> 0, gross |-> 0, resumed |-> FALSE]]
            \/ order' = order
         /\ wire' = [wire EXCEPT ![k] = None]
      \/ /\ order[k] # None /\ wire' = wire
         /\ \E o \in VenueOrders : /\ o.size = order[k].size /\ o.side = order[k].side
                                   /\ order' = [order EXCEPT ![k] = o]
  <2>1. CASE Arrive(k) \/ Vanish(k)
    BY <2>1 DEF Arrive, Vanish
  <2>2. ASSUME NEW px \in FillPrices, Fill(k, px)
        PROVE  /\ order[k] # None /\ wire' = wire
               /\ \E o \in VenueOrders : /\ o.size = order[k].size /\ o.side = order[k].side
                                         /\ order' = [order EXCEPT ![k] = o]
    <3>1. order[k] \in VenueOrders /\ order[k] # None /\ px \in Nat /\ wire' = wire
      BY <1>1, <2>2, FillPricesAssumption DEF Fill, Live, TypeOK
    <3>2. PICK st \in FillResults :
            order' = [order EXCEPT ![k] = [order[k] EXCEPT !.st = st, !.filled = @ + 1,
                                                           !.gross = @ + px]]
      BY <2>2, FillOrder
    <3> DEFINE o == [order[k] EXCEPT !.st = st, !.filled = @ + 1, !.gross = @ + px]
    <3>3. o \in VenueOrders /\ o.size = order[k].size /\ o.side = order[k].side
      <4>1. order[k].filled + 1 \in Nat /\ order[k].gross + px \in Nat
        BY <3>1 DEF VenueOrders
      <4> QED BY <3>1, <4>1 DEF VenueOrders, LiveStates, DetourStates, ClosedStates, FillResults
    <3> QED BY <3>1, <3>2, <3>3
  <2>3. ASSUME NEW st, Shift(k, st)
        PROVE  /\ order[k] # None /\ wire' = wire
               /\ \E o \in VenueOrders : /\ o.size = order[k].size /\ o.side = order[k].side
                                         /\ order' = [order EXCEPT ![k] = o]
    <3> DEFINE o == InState(order[k], st)
    <3>1. o \in VenueOrders /\ o.size = order[k].size /\ o.side = order[k].side
      BY <1>1, <2>3, ShiftOrder, InStateOrder
    <3> QED BY <1>1, <2>3, <3>1, ShiftOrder
  <2> QED BY <2>1, <2>2, <2>3, VenueMovesOrder
<1>3. SUFFICES ASSUME NEW j \in Keys, wire'[j] # None \/ order'[j] # None
               PROVE  posts'[j] # 0 /\ AsRecorded(j)'
  OBVIOUS
<1>4. CASE j # k
  <2>1. wire'[j] = wire[j] /\ order'[j] = order[j]
    BY <1>1, <1>2, <1>4 DEF TypeOK
  <2> QED BY <1>3, <2>1 DEF Submission, AsRecorded
<1>5. CASE j = k
  <2>1. posts[k] # 0 /\ AsRecorded(k)
    BY <1>2 DEF Submission
  <2> QED BY <1>1, <1>2, <1>5, <2>1 DEF AsRecorded, TypeOK
<1> QED BY <1>4, <1>5

LEMMA DecideSubmission ==
  ASSUME Typing, Durable, Submission, Decide
  PROVE  Submission'
<1> DEFINE p == proposal
           verdict(fresh) == Evaluate(p, DerivedIntent(mem, p), AvailableCash(mem),
                               mem.book.pos[p.symbol], mode, kill, mem.known, fresh)
<1>1. /\ pc = "evaluate" /\ mem = ledger /\ p \in Proposals /\ p.key \in Keys
      /\ UNCHANGED <<posts, wire, order>>
  BY KernelAssumption
     DEF Decide, At, Durable, Typing, Situation, HandlerSteps, Steps, ProposalType, venueVars
<1>2. PICK fresh \in BOOLEAN :
        LET approved == verdict(fresh) = "APPROVED"
        IN  /\ ledger' = HydratedDecision(ledger, p.key, approved)
            /\ IF approved /\ p.action # "HOLD"
               THEN /\ Goto(AfterApproval(p))
                    /\ UNCHANGED <<proposal, report>>
               ELSE Return(verdict(fresh))
  BY DEF Decide
<1>3. /\ ledger.known \subseteq ledger'.known /\ ledger'.intent = ledger.intent
      /\ ledger'.status = ledger.status
      /\ verdict(fresh) = "APPROVED" => p.key \in ledger'.known
  BY <1>2 DEF HydratedDecision, Typing, TypeOK, KernelStates
<1>4. CASE verdict(fresh) = "APPROVED" /\ p.action \notin {"HOLD", "CANCEL"}
  <2>1. pc' = "create_intent" /\ proposal' = p
    BY <1>2, <1>4 DEF Goto, AfterApproval
  <2>2. p.key \notin ledger.known
    BY <1>1, <1>4, Approval DEF DuplicateKey
  <2>3. posts[p.key] = 0
    BY <1>1, <2>2 DEF Submission
  <2>4. p.key \in ledger'.known
    BY <1>3, <1>4
  <2> HIDE DEF verdict
  <2>5. ASSUME NEW k \in Keys, posts'[k] # 0
        PROVE  /\ posts'[k] = 1 /\ k \in ledger'.known /\ ledger'.intent[k] # None
               /\ ledger'.status[k] \notin {"CREATED", "VALIDATED"}
    BY <1>1, <1>3, <2>5 DEF Submission
  <2>6. ASSUME NEW k \in Keys, wire'[k] # None \/ order'[k] # None
        PROVE  posts'[k] # 0 /\ AsRecorded(k)'
    BY <1>1, <1>3, <2>6 DEF Submission, AsRecorded
  <2>7. ASSUME NEW k \in Keys, ledger'.intent[k] # None
        PROVE  k \in ledger'.known /\ ledger'.intent[k].key = k
    BY <1>3, <2>7 DEF Submission
  <2> QED BY <1>1, <2>1, <2>3, <2>4, <2>5, <2>6, <2>7 DEF Submission
<1>5. CASE ~(verdict(fresh) = "APPROVED" /\ p.action \notin {"HOLD", "CANCEL"})
  <2>1. pc' \notin EarlySteps
    BY <1>2, <1>5 DEF Goto, AfterApproval, Return, EarlySteps
  <2> HIDE DEF verdict
  <2> QED BY <1>1, <1>3, <2>1, QuietSubmission
<1> QED BY <1>4, <1>5

LEMMA CreateIntentSubmission ==
  ASSUME Typing, Durable, Submission, CreateIntent
  PROVE  Submission'
<1> DEFINE i == DerivedIntent(mem, proposal)
<1>1. /\ pc = "create_intent" /\ mem = ledger /\ proposal \in Proposals
      /\ proposal \in ProposalType /\ UNCHANGED <<posts, wire, order, proposal>>
      /\ pc' = "validate"
      /\ ledger' = HydratedTransition(HydratedIntent(ledger, i), i.key, "CREATED")
  BY KernelAssumption
     DEF CreateIntent, At, Goto, Durable, Typing, Situation, HandlerSteps, Steps, venueVars
<1>2. i \in Intents /\ i.key = proposal.key /\ i.key \in Keys
  BY <1>1, DerivedIntentType DEF Typing, TypeOK, Situation, ProposalType
<1> HIDE DEF i
<1>3. /\ ledger'.known = ledger.known
      /\ ledger'.intent = [ledger.intent EXCEPT ![i.key] = i]
      /\ ledger'.status = [ledger.status EXCEPT ![i.key] = "CREATED"]
  BY <1>1 DEF HydratedTransition, HydratedIntent, Typing, TypeOK, KernelStates
<1>4. posts[i.key] = 0 /\ i.key \in ledger.known
  BY <1>1, <1>2 DEF Submission, EarlySteps
<1>5. ASSUME NEW k \in Keys, k # i.key
      PROVE  ledger'.intent[k] = ledger.intent[k] /\ ledger'.status[k] = ledger.status[k]
  BY <1>3, <1>5 DEF Typing, TypeOK, KernelStates
<1>6. ledger'.intent[i.key] = i
  BY <1>2, <1>3 DEF Typing, TypeOK, KernelStates
<1>7. ASSUME NEW k \in Keys, posts'[k] # 0
      PROVE  /\ posts'[k] = 1 /\ k \in ledger'.known /\ ledger'.intent[k] # None
             /\ ledger'.status[k] \notin {"CREATED", "VALIDATED"}
  BY <1>1, <1>3, <1>4, <1>5, <1>7 DEF Submission
<1>8. ASSUME NEW k \in Keys, wire'[k] # None \/ order'[k] # None
      PROVE  posts'[k] # 0 /\ AsRecorded(k)'
  BY <1>1, <1>4, <1>5, <1>8 DEF Submission, AsRecorded
<1>9. ASSUME NEW k \in Keys, ledger'.intent[k] # None
      PROVE  k \in ledger'.known /\ ledger'.intent[k].key = k
  BY <1>3, <1>4, <1>5, <1>6, <1>9 DEF Submission
<1> QED BY <1>1, <1>2, <1>3, <1>4, <1>7, <1>8, <1>9 DEF Submission, EarlySteps

LEMMA AdvanceSubmission ==
  ASSUME Typing, Durable, Submission,
         NEW from \in {"validate", "mark_submitting"}, NEW to \in OrderStatus,
         NEW next \in {"mark_submitting", "submit"}, Advance(from, to, next),
         next = "submit" => to = "SUBMITTING"
  PROVE  Submission'
<1>1. /\ pc = from /\ mem = ledger /\ proposal \in Proposals /\ proposal.key \in Keys
      /\ UNCHANGED <<posts, wire, order>>
  BY KernelAssumption
     DEF Advance, At, Durable, Typing, Situation, HandlerSteps, Steps, ProposalType, venueVars
<1>2. CASE Accepts(mem.status[proposal.key], to)
  <2>1. Transition(proposal.key, to) /\ pc' = next /\ proposal' = proposal
    BY <1>2 DEF Advance, Goto
  <2>2. /\ ledger'.known = ledger.known /\ ledger'.intent = ledger.intent
        /\ ledger'.status = [ledger.status EXCEPT ![proposal.key] = to]
    BY <1>1, <2>1, TransitionStatus DEF Typing
  <2>3. posts[proposal.key] = 0 /\ proposal.key \in ledger.known
    BY <1>1 DEF Submission, EarlySteps
  <2>4. ASSUME NEW k \in Keys, posts'[k] # 0
        PROVE  /\ posts'[k] = 1 /\ k \in ledger'.known /\ ledger'.intent[k] # None
               /\ ledger'.status[k] \notin {"CREATED", "VALIDATED"}
    <3>1. ledger'.status[k] = ledger.status[k]
      BY <1>1, <2>2, <2>3, <2>4 DEF Typing, TypeOK, KernelStates
    <3> QED BY <1>1, <2>2, <2>4, <3>1 DEF Submission
  <2>5. ASSUME NEW k \in Keys, wire'[k] # None \/ order'[k] # None
        PROVE  posts'[k] # 0 /\ AsRecorded(k)'
    BY <1>1, <2>2, <2>5 DEF Submission, AsRecorded
  <2>6. next = "submit" => ledger'.status[proposal.key] = "SUBMITTING"
    BY <1>1, <2>2 DEF Typing, TypeOK, KernelStates
  <2>7. ASSUME NEW k \in Keys, ledger'.intent[k] # None
        PROVE  k \in ledger'.known /\ ledger'.intent[k].key = k
    BY <2>2, <2>7 DEF Submission
  <2> QED BY <1>1, <2>1, <2>2, <2>3, <2>4, <2>5, <2>6, <2>7 DEF Submission
<1>3. CASE ~Accepts(mem.status[proposal.key], to)
  <2>1. pc' = "idle" /\ ledger' = ledger
    BY <1>3 DEF Advance, Return
  <2> QED BY <1>1, <2>1, QuietSubmission DEF EarlySteps
<1> QED BY <1>2, <1>3

LEMMA SubmitSubmission ==
  ASSUME Typing, Durable, Submission, Submit
  PROVE  Submission'
<1> DEFINE i == mem.intent[proposal.key]
<1>1. /\ pc = "submit" /\ mem = ledger /\ proposal \in Proposals /\ proposal.key \in Keys
      /\ UNCHANGED <<ledger, order>> /\ pc' \in {"record", "posted"}
  BY KernelAssumption
     DEF Submit, At, Goto, Durable, Typing, Situation, HandlerSteps, Steps, ProposalType
<1>2. i # None /\ i \in Intents /\ i.key = proposal.key
  BY <1>1 DEF Typing, TypeOK, Situation, IntentSteps, KernelStates, Submission
<1>3. CASE order[i.key] # None
  BY <1>1, <1>3, QuietSubmission DEF Submit, EarlySteps
<1>4. CASE order[i.key] = None
  <2>1. /\ wire' = [wire EXCEPT ![i.key] = i]
        /\ posts' = [posts EXCEPT ![i.key] = @ + 1]
    BY <1>4 DEF Submit
  <2>2. posts[i.key] = 0 /\ i.key \in ledger.known /\ ledger.status[i.key] = "SUBMITTING"
    BY <1>1, <1>2 DEF Submission, EarlySteps
  <2>3. wire'[i.key] = i /\ posts'[i.key] = 1 /\ ledger.intent[i.key] = i
    BY <1>1, <1>2, <2>1, <2>2 DEF Typing, TypeOK
  <2>4. ASSUME NEW k \in Keys, k # i.key
        PROVE  wire'[k] = wire[k] /\ posts'[k] = posts[k]
    BY <2>1, <2>4 DEF Typing, TypeOK
  <2> HIDE DEF i
  <2>5. ASSUME NEW k \in Keys, posts'[k] # 0
        PROVE  /\ posts'[k] = 1 /\ k \in ledger'.known /\ ledger'.intent[k] # None
               /\ ledger'.status[k] \notin {"CREATED", "VALIDATED"}
    BY <1>1, <1>2, <2>2, <2>3, <2>4, <2>5 DEF Submission
  <2>6. ASSUME NEW k \in Keys, wire'[k] # None \/ order'[k] # None
        PROVE  posts'[k] # 0 /\ AsRecorded(k)'
    BY <1>1, <1>4, <2>3, <2>4, <2>6 DEF Submission, AsRecorded
  <2> QED BY <1>1, <2>5, <2>6 DEF Submission, EarlySteps
<1> QED BY <1>3, <1>4

LEMMA VenueActsSubmission ==
  ASSUME Typing, Submission, VenueActs
  PROVE  Submission'
<1>1. UNCHANGED <<pc, proposal, ledger, posts>>
  BY DEF VenueActs, kernelVars, processVars
<1>2. ASSUME NEW k \in Keys, wire'[k] # None \/ order'[k] # None
      PROVE  posts'[k] # 0 /\ AsRecorded(k)'
  BY <1>1, <1>2, VenueSubmission DEF VenueActs
<1> QED BY <1>1, <1>2 DEF Submission

LEMMA SendCancelSubmission ==
  ASSUME Typing, Submission, SendCancel
  PROVE  Submission'
<1> DEFINE t == proposal.target
<1>1. /\ t \in Keys /\ order[t] # None /\ order[t] \in VenueOrders /\ pc' = "cancel_reply"
      /\ UNCHANGED <<wire, ledger, posts>>
  BY KernelAssumption
     DEF SendCancel, At, Goto, Cancelled, SetState, Typing, TypeOK, Situation, HandlerSteps,
         Steps, ProposalType, venueVars
<1>2. (\E st : Shift(t, st)) \/ order' = order
  BY CancelMovesOrder DEF venueVars
<1>3. ASSUME NEW k \in Keys
      PROVE  /\ order'[k] # None => order[k] # None
             /\ order[k] # None => /\ order'[k].size = order[k].size
                                   /\ order'[k].side = order[k].side
  <2>1. CASE order' = order
    BY <2>1
  <2>2. ASSUME NEW st, Shift(t, st)
        PROVE  /\ order'[k] # None => order[k] # None
               /\ order[k] # None => /\ order'[k].size = order[k].size
                                     /\ order'[k].side = order[k].side
    BY <1>1, <2>2, ShiftOrder, InStateOrder DEF Typing
  <2> QED BY <1>2, <2>1, <2>2
<1>4. ASSUME NEW k \in Keys, wire'[k] # None \/ order'[k] # None
      PROVE  posts'[k] # 0 /\ AsRecorded(k)'
  BY <1>1, <1>3, <1>4 DEF Submission, AsRecorded
<1> QED BY <1>1, <1>4 DEF Submission, EarlySteps

\* A settled or cancelled order gets a status past the submission.
LEMMA SettleStatus ==
  ASSUME Typing, Durable, NEW from \in {"settle", "reconcile_settle"}, NEW skipped,
         Settle(from, skipped)
  PROVE  /\ pc = from /\ mem = ledger /\ pc' = "idle" /\ report.key \in Keys
         /\ UNCHANGED <<posts, wire, order, shares, spent>>
         /\ \/ UNCHANGED ledger
            \/ /\ Accepts(ledger.status[report.key], Normalise(report.status))
               /\ ledger'.known = ledger.known /\ ledger'.intent = ledger.intent
               /\ ledger'.linked = ledger.linked
               /\ ledger'.status =
                    [ledger.status EXCEPT ![report.key] = Normalise(report.status)]
<1>1. pc = from /\ mem = ledger /\ report \in Reports /\ report.key \in Keys
  BY DEF Settle, At, Durable, Typing, Situation, ReportSteps, Reports
<1>2. Normalise(report.status) \in OrderStatus
  BY DEF Normalise, OrderStatus
<1>3. UNCHANGED <<posts, wire, order, shares, spent>> /\ pc' = "idle"
  BY DEF Settle, Return, FailSafe, venueVars
<1> QED BY <1>1, <1>2, <1>3, TransitionStatus DEF Settle, Typing

LEMMA CancelReplyStatus ==
  ASSUME Typing, Durable, CancelReply
  PROVE  /\ pc = "cancel_reply" /\ mem = ledger /\ pc' \in {"idle", "cancel_record"}
         /\ proposal.key \in Keys /\ proposal.target \in Keys
         /\ UNCHANGED <<posts, wire, order, shares, spent>>
         /\ \/ UNCHANGED ledger
            \/ LET original == ledger.linked[proposal.target] IN
               /\ original \in Keys
               /\ Snapshot(proposal.target).status = "CANCELLED"
               /\ Accepts(ledger.status[original], "CANCELLED")
               /\ ledger'.known = ledger.known /\ ledger'.intent = ledger.intent
               /\ ledger'.linked = ledger.linked
               /\ ledger'.status = [ledger.status EXCEPT ![original] = "CANCELLED"]
<1> DEFINE original == mem.linked[proposal.target]
<1>1. /\ pc = "cancel_reply" /\ mem = ledger /\ proposal \in Proposals
      /\ proposal.key \in Keys /\ proposal.target \in Keys
  BY KernelAssumption
     DEF CancelReply, At, Durable, Typing, Situation, HandlerSteps, Steps, ProposalType
<1>2. pc' \in {"idle", "cancel_record"} /\ UNCHANGED <<posts, wire, order, shares, spent>>
  BY DEF CancelReply, FailSafe, Return, Goto, venueVars
<1>3. original \in Keys \cup {None}
  BY <1>1 DEF Typing, TypeOK, KernelStates
<1>4. \/ UNCHANGED ledger
      \/ /\ original \in Keys /\ Snapshot(proposal.target).status = "CANCELLED"
         /\ Accepts(mem.status[original], "CANCELLED")
         /\ Transition(original, "CANCELLED")
  BY <1>3 DEF CancelReply, Confirmed
<1> QED BY <1>1, <1>2, <1>4, TransitionStatus DEF Typing, OrderStatus

LEMMA NextSubmission ==
  ASSUME Typing, Durable, Submission, [Next]_vars
  PROVE  Submission'
<1>1. ASSUME NEW p \in Proposals, Receive(p) PROVE Submission'
  <2>1. mem = ledger /\ pc' \notin EarlySteps /\ UNCHANGED <<posts, wire, order>>
    BY <1>1 DEF Receive, At, Goto, Raise, Return, Durable, EarlySteps, venueVars
  <2>2. /\ ledger'.known = ledger.known /\ ledger'.intent = ledger.intent
        /\ ledger'.status = ledger.status
    BY <1>1 DEF Receive, HydratedProposal, Typing, TypeOK, KernelStates
  <2> QED BY <2>1, <2>2, QuietSubmission
<1>2. ASSUME Validate \/ MarkSubmitting PROVE Submission'
  BY <1>2, AdvanceSubmission DEF Validate, MarkSubmitting, OrderStatus
<1>3. ASSUME RecordSubmission \/ RecordCancellation \/ Reconcile PROVE Submission'
  <2>1. /\ pc \in ReportSteps /\ report \in Reports
        /\ Record(report) \/ UNCHANGED ledger
        /\ pc' \notin EarlySteps /\ UNCHANGED <<posts, wire, order>>
    BY <1>3 DEF RecordSubmission, RecordReport, RecordCancellation, Reconcile, At, Goto,
                Return, FailSafe, Typing, Situation, ReportSteps, EarlySteps, venueVars
  <2>2. /\ ledger.known \subseteq ledger'.known
        /\ ledger'.intent = ledger.intent /\ ledger'.status = ledger.status
    BY <2>1, RecordKnown DEF Typing
  <2> QED BY <2>1, <2>2, QuietSubmission
<1>4. ASSUME SettleSubmission \/ SettleReconciliation PROVE Submission'
  <2>1. /\ pc' = "idle" /\ UNCHANGED <<posts, wire, order>>
        /\ \/ UNCHANGED ledger
           \/ /\ ledger'.known = ledger.known /\ ledger'.intent = ledger.intent
              /\ ledger'.status =
                   [ledger.status EXCEPT ![report.key] = Normalise(report.status)]
    BY <1>4, SettleStatus DEF SettleSubmission, SettleReconciliation
  <2>2. Normalise(report.status) \notin {"CREATED", "VALIDATED"}
    BY DEF Normalise
  <2>3. \A k \in Keys : \/ ledger'.status[k] = ledger.status[k]
                        \/ ledger'.status[k] \notin {"CREATED", "VALIDATED"}
    BY <2>1, <2>2 DEF Typing, TypeOK, KernelStates
  <2> QED BY <2>1, <2>3, QuietSubmission DEF EarlySteps
<1>5. ASSUME CancelReply PROVE Submission'
  <2>1. \A k \in Keys : \/ ledger'.status[k] = ledger.status[k]
                        \/ ledger'.status[k] \notin {"CREATED", "VALIDATED"}
    BY <1>5, CancelReplyStatus DEF Typing, TypeOK, KernelStates
  <2> QED BY <1>5, <2>1, CancelReplyStatus, QuietSubmission DEF EarlySteps
<1>6. ASSUME \/ SubmitRaises \/ ReplyKnown \/ ReplyUnknown \/ ReplyRaises \/ CancelRaises
             \/ \E k \in Keys : LookUp(k)
             \/ \E k, claimed \in Keys : ForeignReport(k, claimed)
             \/ Start \/ Stop \/ Crash
      PROVE  Submission'
  <2>1. pc' \notin EarlySteps /\ UNCHANGED <<ledger, posts, wire, order>>
    BY <1>6 DEF SubmitRaises, ReplyKnown, ReplyUnknown, ReplyRaises, CancelRaises, LookUp,
                ForeignReport, Start, Stop, Crash, Raise, Return, Goto, EarlySteps, venueVars
  <2> QED BY <2>1, QuietSubmission
<1>7. ASSUME UNCHANGED vars \/ \E next \in OwnerModes : SetMode(next) PROVE Submission'
  <2>1. UNCHANGED <<pc, proposal, ledger, posts, wire, order>>
    BY <1>7 DEF SetMode, vars, kernelVars, processVars, venueVars
  <2> QED BY <2>1 DEF Submission, AsRecorded
<1>8. CASE HandleProposal
  BY <1>8, <1>1, <1>2, <1>3, <1>4, <1>6, DecideSubmission, CreateIntentSubmission,
     SubmitSubmission DEF HandleProposal
<1>9. CASE HandleCancel
  BY <1>9, <1>3, <1>5, <1>6, SendCancelSubmission DEF HandleCancel
<1>10. CASE ReconcileReport
  BY <1>10, <1>3, <1>4, <1>6 DEF ReconcileReport
<1> QED BY <1>6, <1>7, <1>8, <1>9, <1>10, VenueActsSubmission DEF Next

LEMMA InitSubmission == Init => Submission
BY DEF Init, VenueInit, EmptyState, Submission, EarlySteps

\* One idempotency key leads to at most one order request, whatever times out, raises, crashes
\* or is proposed again (ExecutionKernel.handle_proposal, AlpacaPaperBroker.submit).
THEOREM OneSubmission == Spec => []AtMostOneSubmission
<1>1. Init => Durable
  BY DEF Init, Durable
<1>2. Typing /\ Durable /\ Submission /\ [Next]_vars => Typing' /\ Durable' /\ Submission'
  BY NextTyping, NextDurable, NextSubmission
<1>3. Submission => AtMostOneSubmission
  <2> SUFFICES ASSUME Submission, NEW k \in Keys PROVE posts[k] <= 1
    BY DEF AtMostOneSubmission
  <2> QED BY DEF Submission
<1> QED BY InitTyping, InitSubmission, <1>1, <1>2, <1>3, PTL DEF Spec

\* Nothing is at the exchange, or on its way there, that the ledger does not hold as an
\* approved order past VALIDATED, with the same size and side.
THEOREM RecordedFirst == Spec => []NothingUnrecordedAtVenue
<1>1. Init => Durable
  BY DEF Init, Durable
<1>2. Typing /\ Durable /\ Submission /\ [Next]_vars => Typing' /\ Durable' /\ Submission'
  BY NextTyping, NextDurable, NextSubmission
<1>3. Submission => NothingUnrecordedAtVenue
  BY DEF Submission, AsRecorded, NothingUnrecordedAtVenue
<1> QED BY InitTyping, InitSubmission, <1>1, <1>2, <1>3, PTL DEF Spec

-----------------------------------------------------------------------------
(* What may leave the process under a restriction.                         *)

Restricted == kill \/ mode \in {"SAFE", "DEAD"}

\* A purchase on its way to the broker is not restricted, and the intent is on the side the
\* proposal asked for.
Restriction ==
  /\ pc \in EarlySteps /\ Restricted => proposal.action \notin Opening
  /\ pc \in EarlySteps \ {"create_intent"} =>
       mem.intent[proposal.key].side = IF proposal.action \in Opening THEN "BUY" ELSE "SELL"

LEMMA NextRestriction ==
  ASSUME Typing, Restriction, [Next]_vars
  PROVE  Restriction'
<1> USE DEF Restriction, EarlySteps
<1>1. ASSUME Decide, pc' = "create_intent" PROVE Restriction'
  <2>1. PICK fresh \in BOOLEAN :
          LET verdict == Evaluate(proposal, DerivedIntent(mem, proposal), AvailableCash(mem),
                           mem.book.pos[proposal.symbol], mode, kill, mem.known, fresh)
          IN  IF verdict = "APPROVED" /\ proposal.action # "HOLD"
              THEN UNCHANGED proposal
              ELSE Return(verdict)
    BY <1>1 DEF Decide
  <2>2. ~OpeningBlocked(proposal, mode, kill) /\ proposal' = proposal
    BY <1>1, <2>1, Approval DEF Return
  <2>3. UNCHANGED <<mode, kill>>
    BY <1>1 DEF Decide, controlVars
  <2> QED BY <1>1, <2>2, <2>3 DEF OpeningBlocked, Restricted
<1>2. ASSUME CreateIntent PROVE Restriction'
  <2> DEFINE i == DerivedIntent(mem, proposal)
  <2>1. /\ pc = "create_intent" /\ proposal \in Proposals /\ proposal \in ProposalType
        /\ UNCHANGED <<proposal, mode, kill>> /\ pc' = "validate"
        /\ mem' = [mem EXCEPT !.intent[i.key] = i, !.status[i.key] = "CREATED"]
    BY <1>2, KernelAssumption
       DEF CreateIntent, At, Goto, Typing, Situation, HandlerSteps, Steps, controlVars
  <2>2. /\ i.key = proposal.key /\ i.key \in Keys
        /\ i.side = IF proposal.action \in Opening THEN "BUY" ELSE "SELL"
    BY <2>1, DerivedIntentType DEF Typing, TypeOK, Situation, ProposalType
  <2> HIDE DEF i
  <2>3. mem'.intent[proposal.key] = i
    BY <2>1, <2>2 DEF Typing, TypeOK, KernelStates
  <2> QED BY <2>1, <2>2, <2>3 DEF Restricted
<1>3. ASSUME NEW from \in {"validate", "mark_submitting"}, NEW to \in OrderStatus,
             NEW next \in {"mark_submitting", "submit"}, Advance(from, to, next)
      PROVE  Restriction'
  <2>1. pc = from /\ proposal \in Proposals /\ proposal.key \in Keys
    BY <1>3, KernelAssumption
       DEF Advance, At, Typing, Situation, HandlerSteps, Steps, ProposalType
  <2>2. CASE Accepts(mem.status[proposal.key], to)
    <3>1. /\ Transition(proposal.key, to) /\ UNCHANGED <<proposal, mode, kill>>
      BY <1>3, <2>2 DEF Advance
    <3>2. mem'.intent = mem.intent
      BY <2>1, <3>1, TransitionType DEF Typing
    <3> QED BY <2>1, <3>1, <3>2 DEF Restricted
  <2>3. CASE ~Accepts(mem.status[proposal.key], to)
    BY <1>3, <2>3 DEF Advance, Return
  <2> QED BY <2>2, <2>3
<1>4. ASSUME VenueActs \/ UNCHANGED vars PROVE Restriction'
  BY <1>4 DEF VenueActs, vars, kernelVars, processVars, controlVars, Restricted
<1>5. ASSUME \/ \E p \in Proposals : Receive(p)
             \/ Decide /\ pc' # "create_intent"
             \/ SubmitRaises \/ Submit \/ ReplyKnown \/ ReplyUnknown \/ ReplyRaises
             \/ RecordSubmission \/ SettleSubmission \/ HandleCancel \/ ReconcileReport
             \/ \E k, claimed \in Keys : ForeignReport(k, claimed)
             \/ Start \/ Stop \/ Crash
             \/ \E next \in OwnerModes : SetMode(next)
      PROVE  pc' \notin EarlySteps
  <2>1. ASSUME Decide, pc' # "create_intent" PROVE pc' \notin EarlySteps
    BY <2>1 DEF Decide, Goto, AfterApproval, Return
  <2>2. ASSUME \/ HandleCancel \/ ReconcileReport \/ SettleSubmission PROVE pc' \notin EarlySteps
    BY <2>2 DEF HandleCancel, SendCancel, CancelRaises, CancelReply, RecordCancellation,
                ReconcileReport, LookUp, Reconcile, SettleReconciliation, SettleSubmission,
                Settle, Goto, Return, Raise, FailSafe
  <2>3. ASSUME \E next \in OwnerModes : SetMode(next) PROVE pc' \notin EarlySteps
    BY <2>3 DEF SetMode, At, processVars
  <2>4. ASSUME \/ \E p \in Proposals : Receive(p)
               \/ SubmitRaises \/ Submit \/ ReplyKnown \/ ReplyUnknown \/ ReplyRaises
               \/ RecordSubmission
               \/ \E k, claimed \in Keys : ForeignReport(k, claimed)
               \/ Start \/ Stop \/ Crash
        PROVE  pc' \notin EarlySteps
    BY <2>4 DEF Receive, SubmitRaises, Submit, ReplyKnown, ReplyUnknown, ReplyRaises,
                RecordSubmission, RecordReport, ForeignReport, Start, Stop, Crash, Goto, Raise, Return
  <2> QED BY <1>5, <2>1, <2>2, <2>3, <2>4
<1>6. Validate \/ MarkSubmitting => Restriction'
  BY <1>3 DEF Validate, MarkSubmitting, OrderStatus
<1> QED BY <1>1, <1>2, <1>4, <1>5, <1>6 DEF Next, HandleProposal

\* Only Submit posts, and what it posts under a restriction is a sale.
LEMMA RestrictedStep ==
  ASSUME Typing, Durable, Submission, Restriction, [Next]_vars,
         NEW k \in Keys, posts'[k] # posts[k], Restricted
  PROVE  wire'[k].side = "SELL"
<1>1. Submit
  <2>1. ASSUME ~Submit PROVE posts' = posts
    BY <2>1
       DEF Next, HandleProposal, HandleCancel, ReconcileReport, Receive, Decide, CreateIntent,
           Validate, MarkSubmitting, Advance, SubmitRaises, ReplyKnown, ReplyUnknown,
           ReplyRaises, RecordSubmission, RecordReport, SettleSubmission, Settle, SendCancel,
           CancelRaises, CancelReply, RecordCancellation, LookUp, Reconcile,
           SettleReconciliation, ForeignReport, Start, Stop, Crash, SetMode, VenueActs,
           vars, kernelVars
  <2> QED BY <2>1
<1> DEFINE i == mem.intent[proposal.key]
<1>2. pc = "submit" /\ mem = ledger /\ proposal \in Proposals /\ proposal.key \in Keys
  BY <1>1, KernelAssumption
     DEF Submit, At, Durable, Typing, Situation, HandlerSteps, Steps, ProposalType
<1>3. i # None /\ i.key = proposal.key
  BY <1>2 DEF Typing, Situation, IntentSteps, Submission
<1>4. wire' = [wire EXCEPT ![i.key] = i] /\ posts' = [posts EXCEPT ![i.key] = @ + 1]
  BY <1>1 DEF Submit
<1>5. k = i.key /\ wire'[k] = i
  BY <1>4 DEF Typing, TypeOK
<1>6. i.side = "SELL"
  BY <1>2 DEF Restriction, EarlySteps
<1> QED BY <1>5, <1>6

\* In SAFE, in DEAD and under the kill switch no purchase leaves the process, whenever the
\* restriction came (RiskEngine.evaluate; the mode cannot change between decision and post).
THEOREM Restrictions == Spec => RestrictionsHold
<1>1. Init => Durable /\ Restriction
  BY DEF Init, Durable, Restriction, EarlySteps
<1>2. Typing /\ Durable /\ Submission /\ Restriction /\ [Next]_vars
        => Typing' /\ Durable' /\ Submission' /\ Restriction'
  BY NextTyping, NextDurable, NextSubmission, NextRestriction
<1>3. Typing /\ Durable /\ Submission /\ Restriction /\ [Next]_vars
        => [\A k \in Keys : posts'[k] # posts[k] /\ (kill \/ mode \in {"SAFE", "DEAD"})
                              => wire'[k].side = "SELL"]_vars
  BY RestrictedStep DEF Restricted
<1> QED BY InitTyping, InitSubmission, <1>1, <1>2, <1>3, PTL DEF Spec, RestrictionsHold

\* DEAD is for ever (ControlState.transition_mode, ExecutionKernel._enter_safe_mode).
THEOREM Dead == Spec => DeadIsForever
<1>1. ASSUME mode = "DEAD", [Next]_vars PROVE mode' = "DEAD"
  BY <1>1
     DEF Next, HandleProposal, HandleCancel, ReconcileReport, Receive, Decide, CreateIntent,
         Validate, MarkSubmitting, Advance, SubmitRaises, Submit, ReplyKnown, ReplyUnknown,
         ReplyRaises, RecordSubmission, RecordReport, SettleSubmission, Settle, SendCancel,
         CancelRaises, CancelReply, RecordCancellation, LookUp, Reconcile,
         SettleReconciliation, ForeignReport, Start, Stop, Crash, SetMode, VenueActs,
         vars, kernelVars, controlVars, Raise, FailSafe, EnterSafeMode, SafeFrom, ModeMayBecome
<1>2. [Next]_vars => [mode = "DEAD" => mode' = "DEAD"]_vars
  BY <1>1
<1> QED BY <1>2, PTL DEF Spec, DeadIsForever

-----------------------------------------------------------------------------
(* How orders are closed.                                                  *)

ClosedAs(k, status) ==
  /\ order[k] # None
  /\ \/ MapStatus(order[k].st) = status
     \/ status = "REJECTED" /\ order[k].resumed

\* Report r names its own order, and calls it closed only as the exchange closed it.
Faithful(r) ==
  /\ r.order \in {r.key, None}
  /\ r.status \in Terminal => ClosedAs(r.key, r.status)

Closure ==
  /\ \A k \in Keys : ledger.status[k] \in Terminal => ClosedAs(k, ledger.status[k])
  /\ \A k \in Keys : ledger.linked[k] \in {None, k}
  /\ pc \in {"record", "settle", "reconcile_settle"} => Faithful(report)
  /\ pc = "reconcile" /\ Recognised(mem, report) => Faithful(report)
  /\ pc \in {"cancel", "cancel_reply", "cancel_record"} => mem.intent[proposal.key] = None
  /\ pc = "cancel_record" => report.key = proposal.key

\* An order the exchange has closed does not change any more, and a suspended one is known to have
\* been suspended when it changes.
LEMMA ClosedStable ==
  ASSUME Typing, VenueActs \/ SendCancel, NEW k \in Keys, NEW status \in Terminal,
         ClosedAs(k, status)
  PROVE  ClosedAs(k, status)'
<1>1. /\ TypeOK /\ order[k] # None /\ order[k] \in VenueOrders
      /\ Live(k) => status = "REJECTED" /\ (order[k].st = "suspended" \/ order[k].resumed)
  BY DEF ClosedAs, MapStatus, Terminal, Live, LiveStates, DetourStates, Typing, TypeOK
<1>2. ASSUME NEW j \in Keys, NEW st, Shift(j, st) PROVE ClosedAs(k, status)'
  <2>1. CASE j # k
    BY <1>1, <1>2, <2>1, ShiftOrder DEF ClosedAs
  <2>2. CASE j = k
    <3>1. /\ Live(k) /\ order[k] \in VenueOrders /\ st \in LiveStates \cup ClosedStates
          /\ order'[k] = InState(order[k], st)
      BY <1>1, <1>2, <2>2, ShiftOrder DEF Shift
    <3>2. order'[k] # None /\ order'[k].resumed /\ status = "REJECTED"
      BY <1>1, <3>1, InStateOrder
    <3> QED BY <3>2 DEF ClosedAs
  <2> QED BY <2>1, <2>2
<1>3. ASSUME NEW j \in Keys, NEW px \in FillPrices, Fill(j, px) PROVE ClosedAs(k, status)'
  <2>1. PICK st \in FillResults :
          order' = [order EXCEPT ![j] = [order[j] EXCEPT !.st = st, !.filled = @ + 1,
                                                         !.gross = @ + px]]
    BY <1>3, FillOrder
  <2>2. CASE j # k
    BY <1>1, <2>1, <2>2 DEF ClosedAs, TypeOK
  <2>3. CASE j = k
    <3>1. Live(k) /\ order[k].st # "suspended" /\ order'[k] \in VenueOrders \cup {None}
          /\ order'[k] # None
      BY <1>1, <1>3, <2>3, FillType DEF Fill
    <3>2. order'[k] = [order[k] EXCEPT !.st = st, !.filled = @ + 1, !.gross = @ + px]
      BY <1>1, <2>1, <2>3 DEF TypeOK
    <3>3. order'[k].resumed
      BY <1>1, <3>1, <3>2 DEF VenueOrders
    <3> QED BY <1>1, <3>1, <3>3 DEF ClosedAs
  <2> QED BY <2>2, <2>3
<1>4. ASSUME NEW j \in Keys, Arrive(j) \/ Vanish(j) PROVE ClosedAs(k, status)'
  BY <1>1, <1>4 DEF Arrive, Vanish, ClosedAs, TypeOK
<1>5. CASE VenueActs
  BY <1>2, <1>3, <1>4, <1>5, VenueMovesOrder DEF VenueActs
<1>6. CASE SendCancel
  <2>1. proposal.target \in Keys
    BY <1>6, KernelAssumption
       DEF SendCancel, At, Typing, Situation, HandlerSteps, Steps, ProposalType
  <2> QED BY <1>2, <1>6, <2>1, CancelMovesOrder DEF venueVars, ClosedAs
<1> QED BY <1>5, <1>6

LEMMA SnapshotFaithful ==
  ASSUME Typing, NEW k \in Keys, order[k] # None
  PROVE  Faithful(Snapshot(k))
<1>1. Snapshot(k).order = k /\ Snapshot(k).key = k
  BY SnapshotType DEF Typing, TypeOK
<1>2. Snapshot(k).status = MapStatus(order[k].st)
  BY DEF Snapshot
<1> QED BY <1>1, <1>2 DEF Faithful, ClosedAs

\* Steps that leave the order statuses, the links and the exchange alone.
LEMMA QuietClosure ==
  ASSUME Closure, UNCHANGED order, ledger'.status = ledger.status,
         ledger'.linked = ledger.linked,
         pc' \in {"record", "settle", "reconcile_settle"} => Faithful(report)',
         pc' = "reconcile" => ~Recognised(mem, report)' \/ Faithful(report)',
         pc' \in {"cancel", "cancel_reply", "cancel_record"} => mem'.intent[proposal'.key] = None,
         pc' = "cancel_record" => report'.key = proposal'.key
  PROVE  Closure'
<1>1. ASSUME NEW k \in Keys, ledger'.status[k] \in Terminal
      PROVE  ClosedAs(k, ledger.status[k])'
  BY <1>1 DEF Closure, ClosedAs
<1> QED BY <1>1 DEF Closure

\* Recording a faithful report, or one that belongs to no intent, keeps the links.
LEMMA RecordLinks ==
  ASSUME TypeOK, mem = ledger, \A k \in Keys : ledger.linked[k] \in {None, k},
         NEW r \in Reports, Record(r),
         r.order \in {r.key, None} \/ mem.intent[r.key] = None
  PROVE  /\ \A k \in Keys : ledger'.linked[k] \in {None, k}
         /\ ledger'.status = ledger.status /\ mem'.intent = mem.intent
<1>1. CASE r.id \in mem.seen
  BY <1>1 DEF Record
<1>2. CASE r.id \notin mem.seen
  <2>1. /\ ledger'.linked = Linked(ledger, r) /\ ledger'.status = ledger.status
        /\ mem'.intent = mem.intent
    BY <1>2 DEF Record, HydratedReport, TypeOK, KernelStates
  <2>2. \A k \in Keys : Linked(ledger, r)[k] \in {None, k}
    BY DEF Linked, TypeOK, KernelStates
  <2> QED BY <2>1, <2>2
<1> QED BY <1>1, <1>2

LEMMA RecordClosure ==
  ASSUME Typing, Durable, Closure, RecordSubmission \/ Reconcile \/ RecordCancellation
  PROVE  Closure'
<1>1. mem = ledger /\ report \in Reports /\ order' = order
  BY DEF RecordSubmission, RecordReport, Reconcile, RecordCancellation, At, Durable, Typing,
         Situation, ReportSteps, venueVars
<1>2. CASE Reconcile /\ ~Recognised(mem, report)
  <2>1. pc' = "idle" /\ ledger' = ledger
    BY <1>2 DEF Reconcile, FailSafe, Return
  <2> QED BY <1>1, <2>1, QuietClosure
<1>3. CASE ~(Reconcile /\ ~Recognised(mem, report))
  <2>1. /\ Record(report)
        /\ \/ pc' \in {"settle", "reconcile_settle"} /\ report' = report /\ Faithful(report)
           \/ pc' = "idle" /\ mem.intent[report.key] = None
    BY <1>3
       DEF RecordSubmission, RecordReport, Reconcile, RecordCancellation, At, Goto, Return, Closure
  <2>2. report.order \in {report.key, None} \/ mem.intent[report.key] = None
    BY <2>1 DEF Faithful
  <2>3. (\A k \in Keys : ledger'.linked[k] \in {None, k}) /\ ledger'.status = ledger.status
    BY <1>1, <2>1, <2>2, RecordLinks DEF Closure, Typing
  <2>4. ASSUME NEW k \in Keys, ledger'.status[k] \in Terminal
        PROVE  ClosedAs(k, ledger.status[k])'
    BY <1>1, <2>3, <2>4 DEF Closure, ClosedAs
  <2>5. Faithful(report) /\ report' = report => Faithful(report)'
    BY <1>1 DEF Faithful, ClosedAs
  <2> QED BY <2>1, <2>3, <2>4, <2>5 DEF Closure
<1> QED BY <1>2, <1>3

LEMMA SettleClosure ==
  ASSUME Typing, Durable, Closure, SettleSubmission \/ SettleReconciliation
  PROVE  Closure'
<1> DEFINE to == Normalise(report.status)
<1>1. /\ pc \in {"settle", "reconcile_settle"} /\ pc' = "idle" /\ report.key \in Keys
      /\ order' = order
      /\ \/ UNCHANGED ledger
         \/ /\ ledger'.linked = ledger.linked
            /\ ledger'.status = [ledger.status EXCEPT ![report.key] = to]
  BY SettleStatus DEF SettleSubmission, SettleReconciliation
<1>2. to \in Terminal => ClosedAs(report.key, to)
  BY <1>1 DEF Closure, Faithful, Normalise, Terminal
<1> HIDE DEF to
<1>3. CASE UNCHANGED ledger
  BY <1>1, <1>3, QuietClosure
<1>4. CASE ~UNCHANGED ledger
  <2>1. ASSUME NEW k \in Keys, ledger'.status[k] \in Terminal
        PROVE  ClosedAs(k, ledger'.status[k])
    BY <1>1, <1>2, <1>4, <2>1 DEF Closure, Typing, TypeOK, KernelStates
  <2>2. ASSUME NEW k \in Keys, ledger'.status[k] \in Terminal
        PROVE  ClosedAs(k, ledger.status[k])'
    BY <1>1, <2>1, <2>2 DEF ClosedAs
  <2> QED BY <1>1, <1>4, <2>2 DEF Closure
<1> QED BY <1>3, <1>4

LEMMA CancelReplyClosure ==
  ASSUME Typing, Durable, Closure, CancelReply
  PROVE  Closure'
<1> DEFINE t == proposal.target
           original == ledger.linked[t]
<1>1. /\ pc = "cancel_reply" /\ mem = ledger /\ pc' \in {"idle", "cancel_record"}
      /\ proposal.key \in Keys /\ t \in Keys /\ order' = order
  BY CancelReplyStatus
<1>2. /\ mem'.intent = mem.intent
      /\ pc' = "cancel_record" => proposal' = proposal /\ report'.key = proposal.key
  <2>1. mem.linked[t] \in Keys \cup {None} /\ order[t] # None
    BY <1>1 DEF Typing, TypeOK, Situation, KernelStates
  <2>2. mem' = mem \/ (mem.linked[t] \in Keys /\ Transition(mem.linked[t], "CANCELLED"))
    BY <2>1 DEF CancelReply
  <2>3. mem'.intent = mem.intent
    BY <2>2, TransitionType DEF Typing, OrderStatus
  <2>4. Snapshot(t) \in Reports
    BY <1>1, <2>1, SnapshotType DEF Typing, TypeOK
  <2>5. pc' = "cancel_record" =>
          /\ proposal' = proposal
          /\ report' = [Snapshot(t) EXCEPT !.id = <<"cancel", Snapshot(t).order, proposal.key, 0>>,
                                           !.key = proposal.key,
                                           !.status = IF Confirmed(@) THEN @ ELSE "UNKNOWN",
                                           !.qty = 0, !.gross = 0]
    BY DEF CancelReply, FailSafe, Return, Goto
  <2> QED BY <2>3, <2>4, <2>5 DEF Reports
<1>3. pc' = "cancel_record" => mem'.intent[proposal'.key] = None
  BY <1>1, <1>2 DEF Closure
<1>4. CASE UNCHANGED ledger
  BY <1>1, <1>2, <1>3, <1>4, QuietClosure
<1>5. CASE ~UNCHANGED ledger
  <2>1. /\ original \in Keys /\ Snapshot(t).status = "CANCELLED"
        /\ ledger'.linked = ledger.linked
        /\ ledger'.status = [ledger.status EXCEPT ![original] = "CANCELLED"]
    BY <1>5, CancelReplyStatus
  <2>2. original = t
    BY <1>1, <2>1, NoneAssumption DEF Closure
  <2>3. ClosedAs(t, "CANCELLED")
    BY <1>1, <2>1 DEF Snapshot, ClosedAs, Typing, Situation
  <2>4. ASSUME NEW k \in Keys, ledger'.status[k] \in Terminal
        PROVE  ClosedAs(k, ledger'.status[k])
    BY <2>1, <2>2, <2>3, <2>4 DEF Closure, Typing, TypeOK, KernelStates
  <2>5. ASSUME NEW k \in Keys, ledger'.status[k] \in Terminal
        PROVE  ClosedAs(k, ledger.status[k])'
    BY <1>1, <2>4, <2>5 DEF ClosedAs
  <2>6. \A k \in Keys : ledger'.linked[k] \in {None, k}
    BY <2>1 DEF Closure
  <2> QED BY <1>1, <1>2, <1>3, <2>5, <2>6 DEF Closure
<1> QED BY <1>4, <1>5

\* An approved cancellation has a key that no intent was created under.
LEMMA DecideClosure ==
  ASSUME Typing, Durable, Submission, Closure, Decide
  PROVE  Closure'
<1>1. PICK fresh \in BOOLEAN :
        LET verdict == Evaluate(proposal, DerivedIntent(mem, proposal), AvailableCash(mem),
                         mem.book.pos[proposal.symbol], mode, kill, mem.known, fresh)
            approved == verdict = "APPROVED"
        IN  /\ ledger' = HydratedDecision(ledger, proposal.key, approved)
            /\ mem' = IF approved THEN [mem EXCEPT !.known = @ \cup {proposal.key}] ELSE mem
            /\ IF approved /\ proposal.action # "HOLD"
               THEN Goto(AfterApproval(proposal)) /\ UNCHANGED proposal
               ELSE Return(verdict)
  BY DEF Decide
<1>2. /\ mem = ledger /\ order' = order /\ proposal.key \in Keys
  BY KernelAssumption
     DEF Decide, At, Durable, Typing, Situation, HandlerSteps, Steps, ProposalType, venueVars
<1>3. /\ ledger'.status = ledger.status /\ ledger'.linked = ledger.linked
      /\ mem'.intent = mem.intent
  BY <1>1 DEF HydratedDecision, Typing, TypeOK, KernelStates
<1>4. pc' \in {"idle", "cancel", "create_intent"}
  BY <1>1 DEF Goto, AfterApproval, Return
<1>5. pc' = "cancel" => proposal' = proposal /\ mem.intent[proposal.key] = None
  BY <1>1, <1>2, Approval DEF Return, DuplicateKey, Submission
<1> QED BY <1>2, <1>3, <1>4, <1>5, QuietClosure

LEMMA CreateIntentClosure ==
  ASSUME Typing, Closure, CreateIntent
  PROVE  Closure'
<1> DEFINE i == DerivedIntent(mem, proposal)
<1>1. /\ proposal \in ProposalType /\ order' = order /\ pc' = "validate"
      /\ ledger' = HydratedTransition(HydratedIntent(ledger, i), i.key, "CREATED")
  BY KernelAssumption
     DEF CreateIntent, At, Goto, Typing, Situation, HandlerSteps, Steps, venueVars
<1> HIDE DEF i
<1>2. /\ ledger'.linked = ledger.linked
      /\ ledger'.status = [ledger.status EXCEPT ![i.key] = "CREATED"]
  BY <1>1 DEF HydratedTransition, HydratedIntent, Typing, TypeOK, KernelStates
<1>3. ASSUME NEW k \in Keys, ledger'.status[k] \in Terminal
      PROVE  ClosedAs(k, ledger.status[k])'
  <2>1. ledger'.status[k] = ledger.status[k]
    BY <1>2, <1>3 DEF Typing, TypeOK, KernelStates, Terminal
  <2> QED BY <1>1, <1>3, <2>1 DEF Closure, ClosedAs
<1> QED BY <1>1, <1>2, <1>3 DEF Closure

LEMMA AdvanceClosure ==
  ASSUME Typing, Durable, Closure, Validate \/ MarkSubmitting
  PROVE  Closure'
<1>1. PICK to \in {"VALIDATED", "SUBMITTING"} :
        \/ Transition(proposal.key, to)
        \/ UNCHANGED ledger
  BY DEF Validate, MarkSubmitting, Advance
<1>2. /\ mem = ledger /\ order' = order /\ pc' \in {"idle", "mark_submitting", "submit"}
      /\ proposal.key \in Keys
  BY KernelAssumption
     DEF Validate, MarkSubmitting, Advance, At, Goto, Return, Durable, Typing, Situation,
         HandlerSteps, Steps, ProposalType, venueVars
<1>3. CASE UNCHANGED ledger
  BY <1>2, <1>3, QuietClosure
<1>4. CASE Transition(proposal.key, to)
  <2>1. /\ ledger'.linked = ledger.linked
        /\ ledger'.status = [ledger.status EXCEPT ![proposal.key] = to]
    BY <1>2, <1>4, TransitionStatus DEF Typing, OrderStatus
  <2>2. ASSUME NEW k \in Keys, ledger'.status[k] \in Terminal
        PROVE  ClosedAs(k, ledger.status[k])'
    <3>1. ledger'.status[k] = ledger.status[k]
      BY <2>1, <2>2 DEF Typing, TypeOK, KernelStates, Terminal
    <3> QED BY <1>2, <2>2, <3>1 DEF Closure, ClosedAs
  <2> QED BY <1>2, <2>1, <2>2 DEF Closure
<1> QED BY <1>1, <1>3, <1>4

\* A report taken from the exchange is faithful, and so is "nothing is known about this order".
LEMMA AnswerClosure ==
  ASSUME Typing, Closure, Submission, Durable,
         \/ Submit \/ ReplyKnown \/ ReplyUnknown
         \/ \E k \in Keys : LookUp(k)
         \/ \E k, claimed \in Keys : ForeignReport(k, claimed)
  PROVE  Closure'
<1>1. /\ UNCHANGED <<order, mem, ledger>>
      /\ pc' \in {"record", "posted", "reconcile"}
  BY DEF Submit, ReplyKnown, ReplyUnknown, LookUp, ForeignReport, Goto, venueVars
<1>2. ASSUME NEW k \in Keys, order[k] # None, report' = Snapshot(k)
      PROVE  Faithful(report)'
  <2>1. Faithful(Snapshot(k))
    BY <1>2, SnapshotFaithful
  <2> QED BY <1>1, <1>2, <2>1 DEF Faithful, ClosedAs
<1>3. ASSUME Submit \/ ReplyKnown \/ ReplyUnknown
      PROVE  pc' # "reconcile" /\ (pc' = "record" => Faithful(report)')
  <2>1. /\ pc \in {"submit", "posted"} /\ proposal.key \in Keys
        /\ mem.intent[proposal.key].key = proposal.key
    BY <1>3, KernelAssumption
       DEF Submit, ReplyKnown, ReplyUnknown, At, Typing, Situation, HandlerSteps, IntentSteps,
           Steps, ProposalType, Submission, Durable
  <2>2. CASE Submit
    BY <1>2, <2>1, <2>2 DEF Submit, Goto
  <2>3. CASE ReplyKnown
    BY <1>2, <2>1, <2>3 DEF ReplyKnown, Goto
  <2>4. CASE ReplyUnknown
    BY <2>1, <2>4 DEF ReplyUnknown, UnknownReport, Goto, Faithful, Terminal
  <2> QED BY <1>3, <2>2, <2>3, <2>4
<1>4. ASSUME NEW k \in Keys, LookUp(k)
      PROVE  pc' = "reconcile" /\ Faithful(report)'
  BY <1>2, <1>4 DEF LookUp, Goto
<1>5. ASSUME NEW k \in Keys, NEW claimed \in Keys, ForeignReport(k, claimed)
      PROVE  pc' = "reconcile" /\ ~Recognised(mem, report)'
  BY <1>1, <1>5 DEF ForeignReport, Goto, Recognised
<1> QED BY <1>1, <1>3, <1>4, <1>5, QuietClosure

\* The exchange moves on: what it has closed stays closed as reported.
LEMMA VenueClosure ==
  ASSUME Typing, Closure, VenueActs \/ SendCancel
  PROVE  Closure'
<1>1. /\ UNCHANGED <<mem, ledger, proposal, report>>
      /\ pc' = pc \/ (pc = "cancel" /\ pc' = "cancel_reply")
  BY DEF VenueActs, SendCancel, At, Goto, kernelVars, processVars
<1>2. ASSUME NEW k \in Keys, ledger'.status[k] \in Terminal
      PROVE  ClosedAs(k, ledger.status[k])'
  <2>1. ClosedAs(k, ledger.status[k])
    BY <1>1, <1>2 DEF Closure
  <2>2. \A s \in Terminal :
          ClosedAs(k, s) => /\ order'[k] # None
                            /\ \/ MapStatus(order'[k].st) = s
                               \/ s = "REJECTED" /\ order'[k].resumed
    BY ClosedStable DEF ClosedAs
  <2> QED BY <1>1, <1>2, <2>1, <2>2 DEF ClosedAs
<1>3. ASSUME pc \in ReportSteps, Faithful(report)
      PROVE  Faithful(report)'
  <2>1. report.key \in Keys
    BY <1>3 DEF Typing, Situation, Reports
  <2>2. report.status \in Terminal =>
          /\ order'[report.key] # None
          /\ \/ MapStatus(order'[report.key].st) = report.status
             \/ report.status = "REJECTED" /\ order'[report.key].resumed
    <3>1. \A k \in Keys : \A s \in Terminal :
            ClosedAs(k, s) => /\ order'[k] # None
                              /\ \/ MapStatus(order'[k].st) = s
                                 \/ s = "REJECTED" /\ order'[k].resumed
      BY ClosedStable DEF ClosedAs
    <3> QED BY <1>3, <2>1, <3>1 DEF Faithful
  <2> QED BY <1>1, <1>3, <2>2 DEF Faithful, ClosedAs
<1>4. Recognised(mem, report)' <=> Recognised(mem, report)
  BY <1>1 DEF Recognised
<1> QED BY <1>1, <1>2, <1>3, <1>4 DEF Closure, ReportSteps

LEMMA NextClosure ==
  ASSUME Typing, Durable, Submission, Closure, [Next]_vars
  PROVE  Closure'
<1>1. ASSUME NEW p \in Proposals, Receive(p) PROVE Closure'
  <2>1. /\ order' = order /\ pc' \in {"idle", "evaluate"}
        /\ ledger'.status = ledger.status /\ ledger'.linked = ledger.linked
    BY <1>1 DEF Receive, HydratedProposal, Goto, Raise, Return, Typing, TypeOK, KernelStates,
                venueVars
  <2> QED BY <2>1, QuietClosure
<1>2. ASSUME \/ SubmitRaises \/ ReplyRaises \/ CancelRaises \/ Start \/ Stop \/ Crash
             \/ \E next \in OwnerModes : SetMode(next)
      PROVE  Closure'
  <2>1. UNCHANGED <<order, ledger>> /\ pc' \in {"idle", "down"}
    BY <1>2 DEF SubmitRaises, ReplyRaises, CancelRaises, Start, Stop, Crash, SetMode, At, Goto,
                Raise, Return, processVars, venueVars
  <2> QED BY <2>1, QuietClosure
<1>3. CASE UNCHANGED vars
  <2>1. UNCHANGED <<order, ledger, mem, report, proposal, pc>>
    BY <1>3 DEF vars, kernelVars, processVars, venueVars
  <2>2. /\ Faithful(report)' <=> Faithful(report)
        /\ Recognised(mem, report)' <=> Recognised(mem, report)
    BY <2>1 DEF Faithful, ClosedAs, Recognised
  <2> QED BY <2>1, <2>2, QuietClosure DEF Closure
<1>4. CASE HandleProposal
  BY <1>1, <1>2, <1>4, DecideClosure, CreateIntentClosure, AdvanceClosure, AnswerClosure,
     RecordClosure, SettleClosure DEF HandleProposal
<1>5. CASE HandleCancel
  BY <1>2, <1>5, VenueClosure, CancelReplyClosure, RecordClosure DEF HandleCancel
<1>6. CASE ReconcileReport
  BY <1>6, AnswerClosure, RecordClosure, SettleClosure DEF ReconcileReport
<1> QED BY <1>2, <1>3, <1>4, <1>5, <1>6, AnswerClosure, VenueClosure DEF Next

LEMMA InitClosure == Init => Closure
BY DEF Init, EmptyState, Closure, Terminal

\* An order is closed in the ledger only as the exchange has closed it
\* (reconcile_execution_report, _handle_cancel: only a confirmed cancellation counts), unless the
\* exchange had only suspended it, which the adapter reports as a rejection (_map_status).
THEOREM Closing == Spec => []ClosedAsTheVenueSays
<1>1. Init => Durable
  BY DEF Init, Durable
<1>2. Typing /\ Durable /\ Submission /\ Closure /\ [Next]_vars
        => Typing' /\ Durable' /\ Submission' /\ Closure'
  BY NextTyping, NextDurable, NextSubmission, NextClosure
<1>3. Closure => ClosedAsTheVenueSays
  BY DEF Closure, ClosedAs, ClosedAsTheVenueSays
<1> QED BY InitTyping, InitSubmission, InitClosure, <1>1, <1>2, <1>3, PTL DEF Spec

\* Only settlements, cancellations and the steps of a submission write a status, and none of
\* them may leave a terminal one.
LEMMA ClosedStays ==
  ASSUME Typing, Durable, Submission, Closure, [Next]_vars,
         NEW k \in Keys, ledger.status[k] \in Terminal
  PROVE  ledger'.status[k] = ledger.status[k]
<1>1. ASSUME NEW to, Accepts(ledger.status[k], to) PROVE to = ledger.status[k]
  BY <1>1 DEF Accepts, AllowedTransitions, Terminal
<1>2. ASSUME NEW p \in Proposals, Receive(p) PROVE ledger'.status = ledger.status
  BY <1>2 DEF Receive, HydratedProposal, Typing, TypeOK, KernelStates
<1>3. ASSUME Decide PROVE ledger'.status = ledger.status
  BY <1>3 DEF Decide, HydratedDecision, Typing, TypeOK, KernelStates
<1>4. ASSUME CreateIntent PROVE ledger'.status[k] = ledger.status[k]
  <2> DEFINE i == DerivedIntent(mem, proposal)
  <2>1. /\ pc = "create_intent" /\ proposal \in ProposalType
        /\ ledger' = HydratedTransition(HydratedIntent(ledger, i), i.key, "CREATED")
    BY <1>4, KernelAssumption DEF CreateIntent, At, Typing, Situation, HandlerSteps, Steps
  <2>2. i.key = proposal.key
    BY <2>1, DerivedIntentType DEF Typing, TypeOK, Situation
  <2> HIDE DEF i
  <2>3. ledger'.status = [ledger.status EXCEPT ![proposal.key] = "CREATED"]
    BY <2>1, <2>2 DEF HydratedTransition, HydratedIntent, Typing, TypeOK, KernelStates
  <2>4. posts[proposal.key] = 0 /\ posts[k] # 0
    BY <2>1 DEF Submission, EarlySteps, Closure, ClosedAs
  <2> QED BY <2>3, <2>4 DEF Typing, TypeOK, KernelStates
<1>5. ASSUME NEW from \in {"validate", "mark_submitting"}, NEW to \in OrderStatus, NEW next,
             Advance(from, to, next)
      PROVE  ledger'.status[k] = ledger.status[k]
  <2>1. mem = ledger /\ proposal.key \in Keys
    BY <1>5, KernelAssumption
       DEF Advance, At, Durable, Typing, Situation, HandlerSteps, Steps, ProposalType
  <2>2. \/ UNCHANGED ledger
        \/ /\ Accepts(ledger.status[proposal.key], to)
           /\ ledger'.status = [ledger.status EXCEPT ![proposal.key] = to]
    BY <1>5, <2>1, TransitionStatus DEF Advance, Typing
  <2> QED BY <1>1, <2>1, <2>2 DEF Typing, TypeOK, KernelStates
<1>6. ASSUME RecordSubmission \/ RecordCancellation \/ Reconcile
      PROVE  ledger'.status = ledger.status
  <2>1. report \in Reports /\ (Record(report) \/ UNCHANGED ledger)
    BY <1>6 DEF RecordSubmission, RecordReport, RecordCancellation, Reconcile, At, Typing,
                Situation, ReportSteps
  <2> QED BY <2>1, RecordKnown DEF Typing
<1>7. ASSUME SettleSubmission \/ SettleReconciliation
      PROVE  ledger'.status[k] = ledger.status[k]
  <2>1. /\ report.key \in Keys
        /\ \/ UNCHANGED ledger
           \/ /\ Accepts(ledger.status[report.key], Normalise(report.status))
              /\ ledger'.status =
                   [ledger.status EXCEPT ![report.key] = Normalise(report.status)]
    BY <1>7, SettleStatus DEF SettleSubmission, SettleReconciliation
  <2> QED BY <1>1, <2>1 DEF Typing, TypeOK, KernelStates
<1>8. ASSUME CancelReply PROVE ledger'.status[k] = ledger.status[k]
  BY <1>1, <1>8, CancelReplyStatus DEF Typing, TypeOK, KernelStates
<1>9. ASSUME \/ SubmitRaises \/ Submit \/ ReplyKnown \/ ReplyUnknown \/ ReplyRaises
             \/ SendCancel \/ CancelRaises \/ Start \/ Stop \/ Crash
             \/ \E j \in Keys : LookUp(j)
             \/ \E j, claimed \in Keys : ForeignReport(j, claimed)
             \/ \E next \in OwnerModes : SetMode(next)
             \/ VenueActs \/ UNCHANGED vars
      PROVE  ledger' = ledger
  BY <1>9 DEF SubmitRaises, Submit, ReplyKnown, ReplyUnknown, ReplyRaises, SendCancel,
              CancelRaises, Start, Stop, Crash, LookUp, ForeignReport, SetMode, VenueActs, vars,
              kernelVars
<1>10. CASE HandleProposal
  BY <1>2, <1>3, <1>4, <1>5, <1>6, <1>7, <1>9, <1>10
     DEF HandleProposal, Validate, MarkSubmitting, OrderStatus
<1>11. CASE HandleCancel
  BY <1>6, <1>8, <1>9, <1>11 DEF HandleCancel
<1>12. CASE ReconcileReport
  BY <1>6, <1>7, <1>9, <1>12 DEF ReconcileReport
<1> QED BY <1>9, <1>10, <1>11, <1>12 DEF Next

\* A closed order stays as it was closed (execution/state_machine.py: no transition leaves a
\* terminal status, and no key is given a second intent).
THEOREM ClosedForever == Spec => ClosedOrdersStayClosed
<1>1. Init => Durable
  BY DEF Init, Durable
<1>2. Typing /\ Durable /\ Submission /\ Closure /\ [Next]_vars
        => Typing' /\ Durable' /\ Submission' /\ Closure'
  BY NextTyping, NextDurable, NextSubmission, NextClosure
<1>3. Typing /\ Durable /\ Submission /\ Closure /\ [Next]_vars
        => [\A k \in Keys :
              ledger.status[k] \in Terminal => ledger'.status[k] = ledger.status[k]]_vars
  BY ClosedStays
<1> QED BY InitTyping, InitSubmission, InitClosure, <1>1, <1>2, <1>3, PTL
        DEF Spec, ClosedOrdersStayClosed

-----------------------------------------------------------------------------
(* An exchange that suspends no order.                                     *)

NeverSuspends == "suspended" \notin Detours

\* No order is suspended or was.
Unsuspended ==
  \A k \in Keys : order[k] # None => order[k].st # "suspended" /\ ~order[k].resumed

LEMMA InitUnsuspended == Init => Unsuspended
BY DEF Init, VenueInit, Unsuspended

LEMMA VenueUnsuspended ==
  ASSUME NeverSuspends, TypeOK, Unsuspended, NEW j \in Keys,
         VenueStep(j) \/ \E st : Shift(j, st)
  PROVE  Unsuspended'
<1>1. ASSUME NEW k \in Keys, order'[k] # None
      PROVE  order'[k].st # "suspended" /\ ~order'[k].resumed
  <2>1. ASSUME NEW st, Shift(j, st) PROVE order'[k].st # "suspended" /\ ~order'[k].resumed
    <3>1. /\ order[j] # None /\ order[j] \in VenueOrders /\ order'[j] = InState(order[j], st)
          /\ st \in LiveStates \cup ClosedStates /\ st # "suspended"
          /\ k # j => order'[k] = order[k]
      BY <2>1, ShiftOrder DEF Shift, NeverSuspends
    <3>2. order[j].st # "suspended" /\ ~order[j].resumed
      BY <3>1 DEF Unsuspended
    <3>3. order'[j].st # "suspended" /\ ~order'[j].resumed
      BY <3>1, <3>2, InStateOrder
    <3> QED BY <1>1, <3>1, <3>3 DEF Unsuspended
  <2>2. ASSUME NEW px \in FillPrices, Fill(j, px)
        PROVE  order'[k].st # "suspended" /\ ~order'[k].resumed
    <3>1. PICK st \in FillResults :
            order' = [order EXCEPT ![j] = [order[j] EXCEPT !.st = st, !.filled = @ + 1,
                                                           !.gross = @ + px]]
      BY <2>2, FillOrder
    <3>2. order[j] \in VenueOrders /\ ~order[j].resumed /\ st # "suspended"
      BY <2>2 DEF Fill, Live, TypeOK, Unsuspended, FillResults
    <3>3. CASE k = j
      <4>1. order'[k] = [order[j] EXCEPT !.st = st, !.filled = @ + 1, !.gross = @ + px]
        BY <3>1, <3>3 DEF TypeOK
      <4> QED BY <3>2, <4>1 DEF VenueOrders
    <3>4. CASE k # j
      BY <1>1, <3>1, <3>4 DEF Unsuspended, TypeOK
    <3> QED BY <3>3, <3>4
  <2>3. ASSUME Arrive(j) \/ Vanish(j) PROVE order'[k].st # "suspended" /\ ~order'[k].resumed
    BY <1>1, <2>3 DEF Arrive, Vanish, Unsuspended, TypeOK
  <2> QED BY <2>1, <2>2, <2>3, VenueMovesOrder
<1> QED BY <1>1 DEF Unsuspended

LEMMA NextUnsuspended ==
  ASSUME NeverSuspends, Typing, Unsuspended, [Next]_vars
  PROVE  Unsuspended'
<1>1. CASE order' = order
  BY <1>1 DEF Unsuspended
<1>2. CASE VenueActs
  BY <1>2, VenueUnsuspended DEF VenueActs, Typing
<1>3. CASE SendCancel
  <2>1. proposal.target \in Keys
    BY <1>3, KernelAssumption
       DEF SendCancel, At, Typing, Situation, HandlerSteps, Steps, ProposalType
  <2> QED BY <1>1, <1>3, <2>1, CancelMovesOrder, VenueUnsuspended DEF venueVars, Typing
<1>4. ASSUME ~VenueActs, ~SendCancel PROVE order' = order
  BY <1>4
     DEF Next, HandleProposal, HandleCancel, ReconcileReport, Receive, Decide, CreateIntent,
         Validate, MarkSubmitting, Advance, SubmitRaises, Submit, ReplyKnown, ReplyUnknown,
         ReplyRaises, RecordSubmission, RecordReport, SettleSubmission, Settle,
         CancelRaises, CancelReply, RecordCancellation, LookUp, Reconcile,
         SettleReconciliation, ForeignReport, Start, Stop, Crash, SetMode, vars, venueVars
<1> QED BY <1>1, <1>2, <1>3, <1>4

\* Without suspensions a closed order is closed at the exchange.
LEMMA ClosedAsMapped ==
  ASSUME Unsuspended, NEW k \in Keys, NEW status \in Terminal, ClosedAs(k, status)
  PROVE  /\ order[k] # None /\ MapStatus(order[k].st) = status
         /\ order[k].st \in ClosedStates
<1>1. order[k] # None /\ order[k].st # "suspended" /\ MapStatus(order[k].st) = status
  BY DEF Unsuspended, ClosedAs
<1> QED BY <1>1 DEF MapStatus, Terminal, ClosedStates

-----------------------------------------------------------------------------
(* What the exchange may still make of an order.                           *)

\* Some of order k was filled; it will never be a new order again.
Begun(k) == order[k] # None /\ order[k].filled # 0

BegunStates == {"PARTIALLY_FILLED"}

Timely(r) == r.status \in BegunStates => Begun(r.key)

\* An ordinary order is partly filled if something of it was filled.
Staged(k) ==
  order[k] # None => /\ order[k].st = "new" => order[k].filled = 0
                     /\ order[k].st = "partially_filled" => order[k].filled # 0

Progress ==
  /\ \A k \in Keys : Staged(k)
  /\ \A k \in Keys : ledger.status[k] \in BegunStates => Begun(k)
  /\ pc \in {"record", "settle", "reconcile_settle"} => Timely(report)
  /\ pc = "reconcile" /\ Recognised(mem, report) => Timely(report)

\* An order that is begun stays so, and an ordinary one is what its fills make it.
LEMMA BegunStable ==
  ASSUME Typing, VenueActs \/ SendCancel, NEW k \in Keys
  PROVE  (Begun(k) => Begun(k)') /\ (Staged(k) => Staged(k)')
<1> DEFINE Goal == (Begun(k) => Begun(k)') /\ (Staged(k) => Staged(k)')
<1>1. TypeOK
  BY DEF Typing
<1>2. ASSUME order'[k] = order[k] PROVE Goal
  BY <1>2 DEF Begun, Staged
<1>3. ASSUME NEW j \in Keys, NEW st, Shift(j, st) PROVE Goal
  <2>1. CASE j # k
    BY <1>1, <1>2, <1>3, <2>1, ShiftOrder
  <2>2. CASE j = k
    <3>1. /\ order[k] # None /\ order'[k] # None
          /\ order'[k].st = st /\ order'[k].filled = order[k].filled
      BY <1>1, <1>3, <2>2, ShiftOrder, InStateOrder
    <3> QED BY <1>3, <2>2, <3>1 DEF Begun, Staged, Shift
  <2> QED BY <2>1, <2>2
<1>4. ASSUME NEW j \in Keys, NEW px \in FillPrices, Fill(j, px) PROVE Goal
  <2>1. PICK st \in FillResults :
          order' = [order EXCEPT ![j] = [order[j] EXCEPT !.st = st, !.filled = @ + 1,
                                                         !.gross = @ + px]]
    BY <1>4, FillOrder
  <2>2. CASE j # k
    BY <1>1, <1>2, <2>1, <2>2 DEF TypeOK
  <2>3. CASE j = k
    <3>1. order[k] \in VenueOrders
      BY <1>1, <1>4, <2>3 DEF Fill, Live, TypeOK
    <3>2. order'[k] = [order[k] EXCEPT !.st = st, !.filled = @ + 1, !.gross = @ + px]
      BY <1>1, <2>1, <2>3 DEF TypeOK
    <3>3. order'[k].filled = order[k].filled + 1 /\ order'[k].st # "new"
      BY <3>1, <3>2 DEF VenueOrders, FillResults
    <3>4. order'[k].filled # 0
      BY <3>1, <3>3 DEF VenueOrders
    <3>5. order[k] # None => order'[k] # None
      BY <1>1, <1>4, <2>3, FillType
    <3> QED BY <3>3, <3>4, <3>5 DEF Begun, Staged
  <2> QED BY <2>2, <2>3
<1>5. ASSUME NEW j \in Keys, Arrive(j) \/ Vanish(j) PROVE Goal
  <2>1. CASE order'[k] = order[k]
    BY <1>2, <2>1
  <2>2. CASE order'[k] # order[k]
    <3>1. order[k] = None /\ order'[k].filled = 0 /\ order'[k].st = "new"
      BY <1>1, <1>5, <2>2 DEF Arrive, Vanish, TypeOK
    <3> QED BY <3>1 DEF Begun, Staged
  <2> QED BY <2>1, <2>2
<1>6. CASE VenueActs
  BY <1>3, <1>4, <1>5, <1>6, VenueMovesOrder DEF VenueActs
<1>7. CASE SendCancel
  <2>1. proposal.target \in Keys
    BY <1>7, KernelAssumption
       DEF SendCancel, At, Typing, Situation, HandlerSteps, Steps, ProposalType
  <2>2. CASE UNCHANGED venueVars
    BY <1>2, <2>2 DEF venueVars
  <2>3. CASE \E st : Shift(proposal.target, st)
    BY <1>3, <2>1, <2>3
  <2> QED BY <1>7, <2>2, <2>3, CancelMovesOrder
<1> QED BY <1>6, <1>7

LEMMA SnapshotTimely ==
  ASSUME Typing, NEW k \in Keys, order[k] # None, Staged(k)
  PROVE  Timely(Snapshot(k))
<1>1. Snapshot(k).key = k /\ Snapshot(k).status = MapStatus(order[k].st)
  BY SnapshotType DEF Typing, TypeOK, Snapshot
<1> QED BY <1>1 DEF Timely, Begun, BegunStates, MapStatus, Staged

\* Steps that leave the exchange alone and call no order begun.
LEMMA QuietProgress ==
  ASSUME Progress, UNCHANGED order,
         \A k \in Keys : \/ ledger'.status[k] = ledger.status[k]
                         \/ ledger'.status[k] \notin BegunStates,
         pc' \in {"record", "settle", "reconcile_settle"} => Timely(report)',
         pc' = "reconcile" => ~Recognised(mem, report)' \/ Timely(report)'
  PROVE  Progress'
<1>1. ASSUME NEW k \in Keys, ledger'.status[k] \in BegunStates
      PROVE  Begun(k)'
  BY <1>1 DEF Progress, Begun
<1> QED BY <1>1 DEF Progress, Staged

LEMMA RecordProgress ==
  ASSUME Typing, Durable, Progress, RecordSubmission \/ Reconcile \/ RecordCancellation
  PROVE  Progress'
<1>1. report \in Reports /\ order' = order /\ (Record(report) \/ ledger' = ledger)
  BY DEF RecordSubmission, RecordReport, Reconcile, RecordCancellation, Typing, At,
         Situation, ReportSteps, venueVars
<1>2. ledger'.status = ledger.status
  BY <1>1, RecordKnown DEF Typing
<1>3. \/ pc' = "idle"
      \/ pc' \in {"settle", "reconcile_settle"} /\ report' = report /\ Timely(report)
  BY DEF RecordSubmission, RecordReport, Reconcile, RecordCancellation, At, Goto, Return,
         FailSafe, Progress
<1>4. Timely(report) /\ report' = report => Timely(report)'
  BY <1>1 DEF Timely, Begun
<1> QED BY <1>1, <1>2, <1>3, <1>4, QuietProgress

LEMMA SettleProgress ==
  ASSUME Typing, Durable, Progress, SettleSubmission \/ SettleReconciliation
  PROVE  Progress'
<1> DEFINE to == Normalise(report.status)
<1>1. /\ pc \in {"settle", "reconcile_settle"} /\ pc' = "idle" /\ report.key \in Keys
      /\ order' = order
      /\ \/ UNCHANGED ledger
         \/ ledger'.status = [ledger.status EXCEPT ![report.key] = to]
  BY SettleStatus DEF SettleSubmission, SettleReconciliation
<1>2. to \in BegunStates => Begun(report.key)
  BY <1>1 DEF Progress, Timely, Normalise, BegunStates
<1> HIDE DEF to
<1>3. ASSUME NEW k \in Keys, ledger'.status[k] \in BegunStates
      PROVE  Begun(k)'
  <2>1. Begun(k)
    BY <1>1, <1>2, <1>3 DEF Progress, Typing, TypeOK, KernelStates
  <2> QED BY <1>1, <2>1 DEF Begun
<1> QED BY <1>1, <1>3 DEF Progress, Staged

\* A report taken from the exchange is timely, and so is "nothing is known about this order".
LEMMA AnswerProgress ==
  ASSUME Typing, Progress,
         \/ Submit \/ ReplyKnown \/ ReplyUnknown
         \/ \E k \in Keys : LookUp(k)
         \/ \E k, claimed \in Keys : ForeignReport(k, claimed)
  PROVE  Progress'
<1>1. /\ UNCHANGED <<order, mem, ledger>>
      /\ pc' \in {"record", "posted", "reconcile"}
  BY DEF Submit, ReplyKnown, ReplyUnknown, LookUp, ForeignReport, Goto, venueVars
<1>2. ASSUME NEW k \in Keys, order[k] # None, report' = Snapshot(k)
      PROVE  Timely(report)'
  <2>1. Timely(Snapshot(k))
    BY <1>2, SnapshotTimely DEF Progress
  <2> QED BY <1>1, <1>2, <2>1 DEF Timely, Begun
<1>3. ASSUME Submit \/ ReplyKnown \/ ReplyUnknown
      PROVE  pc' # "reconcile" /\ (pc' = "record" => Timely(report)')
  <2>1. proposal.key \in Keys
    BY <1>3, KernelAssumption
       DEF Submit, ReplyKnown, ReplyUnknown, At, Typing, Situation, HandlerSteps, Steps,
           ProposalType
  <2>2. CASE Submit
    <3>1. mem.intent[proposal.key].key = proposal.key \/ pc' # "record" \/
          \E k \in Keys : order[k] # None /\ report' = Snapshot(k)
      BY <2>1, <2>2 DEF Submit, Goto, At, Typing, TypeOK, Situation, HandlerSteps, IntentSteps,
                        Steps, KernelStates, Intents
    <3> QED BY <1>2, <2>1, <2>2, <3>1 DEF Submit, Goto
  <2>3. CASE ReplyKnown
    BY <1>2, <2>1, <2>3 DEF ReplyKnown, Goto
  <2>4. CASE ReplyUnknown
    BY <2>4 DEF ReplyUnknown, UnknownReport, Goto, Timely, BegunStates
  <2> QED BY <1>3, <2>2, <2>3, <2>4
<1>4. ASSUME NEW k \in Keys, LookUp(k)
      PROVE  pc' = "reconcile" /\ Timely(report)'
  BY <1>2, <1>4 DEF LookUp, Goto
<1>5. ASSUME NEW k \in Keys, NEW claimed \in Keys, ForeignReport(k, claimed)
      PROVE  pc' = "reconcile" /\ ~Recognised(mem, report)'
  BY <1>1, <1>5 DEF ForeignReport, Goto, Recognised
<1> QED BY <1>1, <1>3, <1>4, <1>5, QuietProgress

\* The exchange moves on from what was reported.
LEMMA VenueProgress ==
  ASSUME Typing, Progress, VenueActs \/ SendCancel
  PROVE  Progress'
<1>1. /\ UNCHANGED <<mem, ledger, proposal, report>>
      /\ pc' = pc \/ (pc = "cancel" /\ pc' = "cancel_reply")
  BY DEF VenueActs, SendCancel, At, Goto, kernelVars, processVars
<1>2. ASSUME NEW k \in Keys, ledger'.status[k] \in BegunStates
      PROVE  Begun(k)'
  BY <1>1, <1>2, BegunStable DEF Progress
<1>3. ASSUME pc \in ReportSteps, Timely(report)
      PROVE  Timely(report)'
  <2>1. report.key \in Keys
    BY <1>3 DEF Typing, Situation, Reports
  <2>2. report.status \in BegunStates => Begun(report.key)'
    <3>1. ASSUME report.status \in BegunStates PROVE Begun(report.key)'
      <4>1. \A k \in Keys : Begun(k) => order'[k] # None /\ order'[k].filled # 0
        BY BegunStable DEF Begun
      <4> QED BY <1>1, <1>3, <2>1, <3>1, <4>1 DEF Timely, Begun
    <3> QED BY <3>1
  <2> QED BY <1>1, <2>2 DEF Timely, Begun
<1>4. Recognised(mem, report)' <=> Recognised(mem, report)
  BY <1>1 DEF Recognised
<1>5. \A k \in Keys : Staged(k)'
  BY BegunStable DEF Progress
<1> QED BY <1>1, <1>2, <1>3, <1>4, <1>5 DEF Progress, ReportSteps

LEMMA NextProgress ==
  ASSUME Typing, Durable, Submission, Progress, [Next]_vars
  PROVE  Progress'
<1>1. ASSUME NEW p \in Proposals, Receive(p) PROVE Progress'
  <2>1. order' = order /\ pc' \in {"idle", "evaluate"} /\ ledger'.status = ledger.status
    BY <1>1 DEF Receive, HydratedProposal, Goto, Raise, Return, Typing, TypeOK, KernelStates,
                venueVars
  <2> QED BY <2>1, QuietProgress
<1>2. ASSUME \/ SubmitRaises \/ ReplyRaises \/ CancelRaises \/ Start \/ Stop \/ Crash
             \/ \E next \in OwnerModes : SetMode(next)
      PROVE  Progress'
  <2>1. UNCHANGED <<order, ledger>> /\ pc' \in {"idle", "down"}
    BY <1>2 DEF SubmitRaises, ReplyRaises, CancelRaises, Start, Stop, Crash, SetMode, At, Goto,
                Raise, Return, processVars, venueVars
  <2> QED BY <2>1, QuietProgress
<1>3. CASE UNCHANGED vars
  <2>1. UNCHANGED <<order, ledger, mem, report, proposal, pc>>
    BY <1>3 DEF vars, kernelVars, processVars, venueVars
  <2>2. /\ Timely(report)' <=> Timely(report)
        /\ Recognised(mem, report)' <=> Recognised(mem, report)
    BY <2>1 DEF Timely, Begun, Recognised
  <2> QED BY <2>1, <2>2, QuietProgress DEF Progress
<1>4. CASE Decide
  <2>1. order' = order /\ ledger'.status = ledger.status /\ pc' \in {"idle", "cancel", "create_intent"}
    BY <1>4 DEF Decide, HydratedDecision, Goto, AfterApproval, Return, Typing, TypeOK,
                KernelStates, venueVars
  <2> QED BY <2>1, QuietProgress
<1>5. CASE CreateIntent
  <2> DEFINE i == DerivedIntent(mem, proposal)
  <2>1. /\ order' = order /\ pc' = "validate"
        /\ ledger' = HydratedTransition(HydratedIntent(ledger, i), i.key, "CREATED")
    BY <1>5 DEF CreateIntent, Goto, venueVars
  <2> HIDE DEF i
  <2>2. ledger'.status = [ledger.status EXCEPT ![i.key] = "CREATED"]
    BY <2>1 DEF HydratedTransition, HydratedIntent, Typing, TypeOK, KernelStates
  <2>3. \A k \in Keys : ledger'.status[k] \in {ledger.status[k], "CREATED"}
    BY <2>2 DEF Typing, TypeOK, KernelStates
  <2> QED BY <2>1, <2>3, QuietProgress DEF BegunStates
<1>6. CASE Validate \/ MarkSubmitting
  <2>1. PICK to \in {"VALIDATED", "SUBMITTING"} :
          Transition(proposal.key, to) \/ UNCHANGED ledger
    BY <1>6 DEF Validate, MarkSubmitting, Advance
  <2>2. /\ mem = ledger /\ order' = order /\ pc' \in {"idle", "mark_submitting", "submit"}
        /\ proposal.key \in Keys
    BY <1>6, KernelAssumption
       DEF Validate, MarkSubmitting, Advance, At, Goto, Return, Durable, Typing, Situation,
           HandlerSteps, Steps, ProposalType, venueVars
  <2>3. \/ ledger' = ledger
        \/ ledger'.status = [ledger.status EXCEPT ![proposal.key] = to]
    <3>1. CASE Transition(proposal.key, to)
      <4>1. to \in OrderStatus
        BY DEF OrderStatus
      <4> QED BY <2>2, <3>1, <4>1, TransitionStatus DEF Typing
    <3>2. CASE UNCHANGED ledger
      BY <3>2
    <3> QED BY <2>1, <3>1, <3>2
  <2>4. \A k \in Keys : ledger'.status[k] \in {ledger.status[k], to}
    BY <2>2, <2>3 DEF Typing, TypeOK, KernelStates
  <2> QED BY <2>2, <2>4, QuietProgress DEF BegunStates
<1>7. CASE CancelReply
  <2>1. \A k \in Keys : ledger'.status[k] \in {ledger.status[k], "CANCELLED"}
    BY <1>7, CancelReplyStatus DEF Typing, TypeOK, KernelStates
  <2> QED BY <1>7, <2>1, CancelReplyStatus, QuietProgress DEF BegunStates
<1>8. CASE HandleProposal
  BY <1>1, <1>2, <1>4, <1>5, <1>6, <1>8, AnswerProgress, RecordProgress, SettleProgress
     DEF HandleProposal
<1>9. CASE HandleCancel
  BY <1>2, <1>7, <1>9, VenueProgress, RecordProgress DEF HandleCancel
<1>10. CASE ReconcileReport
  BY <1>10, AnswerProgress, RecordProgress, SettleProgress DEF ReconcileReport
<1> QED BY <1>2, <1>3, <1>8, <1>9, <1>10, AnswerProgress, VenueProgress DEF Next

LEMMA InitProgress == Init => Progress
BY DEF Init, VenueInit, EmptyState, Progress, BegunStates, Staged

\* Whatever the exchange has made of a pending order, the next look-up can record it, but for a
\* cancellation that was refused or overtaken and the replacement of a partly filled order
\* (execution/state_machine.py, reconcile_execution_report).
THEOREM ProgressAccepted == Spec => []VenueProgressAccepted
<1>1. Init => Durable
  BY DEF Init, Durable
<1>2. Typing /\ Durable /\ Submission /\ Progress /\ [Next]_vars
        => Typing' /\ Durable' /\ Submission' /\ Progress'
  BY NextTyping, NextDurable, NextSubmission, NextProgress
<1>3. ASSUME Typing, Submission, Progress
      PROVE  VenueProgressAccepted
  <2> SUFFICES ASSUME NEW k \in PendingOrders(ledger), order[k] # None
               PROVE  \/ Accepts(ledger.status[k], MapStatus(order[k].st))
                      \/ Unforeseen(ledger.status[k], order[k].st)
    BY DEF VenueProgressAccepted
  <2>1. k \in Keys /\ ledger.status[k] \in OrderStatus \ (Terminal \cup {"CREATED", "VALIDATED"})
    BY <1>3 DEF PendingOrders, Submission, Typing, TypeOK, KernelStates
  <2>2. ledger.status[k] \in BegunStates => order[k].st # "new"
    BY <1>3, <2>1 DEF Progress, Begun, Staged
  <2>3. order[k].st \in LiveStates \cup ClosedStates
    BY <1>3, <2>1 DEF Typing, TypeOK, VenueOrders
  <2> QED BY <2>1, <2>2, <2>3
          DEF Accepts, AllowedTransitions, Unforeseen, MapStatus, OrderStatus, Terminal, BegunStates,
              LiveStates, DetourStates, ClosedStates
<1> QED BY InitTyping, InitSubmission, InitProgress, <1>1, <1>2, <1>3, PTL DEF Spec

-----------------------------------------------------------------------------
(* Sums over finite sets.                                                  *)

Below == {pair \in Nat \X Nat : pair[1] < pair[2]}

\* Every set of numbers has a least one.
LEMMA LeastNumber ==
  ASSUME NEW T, T \subseteq Nat, T # {}
  PROVE  \E n \in T : \A m \in T : n <= m
<1>1. IsWellFoundedOn(Below, Nat)
  <2>1. Below = OpToRel(<, Nat)
    BY DEF OpToRel, Below
  <2> QED BY <2>1, NatLessThanWellFounded
<1>2. PICK n \in T : \A m \in T : ~(<<m, n>> \in Below)
  BY <1>1, WFMin
<1>3. ASSUME NEW m \in T PROVE n <= m
  <2>1. ~(m < n)
    BY <1>2 DEF Below
  <2> QED BY <2>1
<1> QED BY <1>3

\* Of the subsets of a finite set that are bad one is so only because of all its members.
LEMMA SmallestSet ==
  ASSUME NEW S, IsFiniteSet(S), NEW Bad, Bad \subseteq SUBSET S, Bad # {}
  PROVE  \E T \in Bad : \A x \in T : T \ {x} \notin Bad
<1> DEFINE Sizes == {Cardinality(T) : T \in Bad}
<1>1. \A T \in Bad : IsFiniteSet(T) /\ Cardinality(T) \in Nat
  BY FS_Subset, FS_CardinalityType
<1>2. Sizes \subseteq Nat /\ Sizes # {}
  BY <1>1
<1>3. PICK n \in Sizes : \A m \in Sizes : n <= m
  <2> HIDE DEF Sizes
  <2> QED BY <1>2, LeastNumber
<1>4. PICK T \in Bad : Cardinality(T) = n
  OBVIOUS
<1>5. ASSUME NEW x \in T, T \ {x} \in Bad PROVE FALSE
  <2>1. Cardinality(T \ {x}) = Cardinality(T) - 1
    BY <1>1, FS_RemoveElement
  <2>2. Cardinality(T) <= Cardinality(T \ {x})
    BY <1>3, <1>4, <1>5
  <2> QED BY <1>1, <2>1, <2>2
<1> QED BY <1>5

Total(f, S) == MapThenSumSet(LAMBDA k : f[k], S)

\* What MapThenSumSet computes on the way.
Partial(f, g, s) ==
  IF s = {} THEN 0 ELSE f[CHOOSE x \in s : TRUE] + g[s \ {CHOOSE x \in s : TRUE}]

Iterates(f, g, S) == g = [s \in SUBSET S |-> Partial(f, g, s)]

LEMMA TotalIs ==
  ASSUME NEW S, NEW f
  PROVE  Total(f, S) = (CHOOSE g : Iterates(f, g, S))[S]
BY Zenon DEF MapThenSumSet, MapThenFoldSet, Total, Partial, Iterates

\* It exists.
LEMMA PartialExists ==
  ASSUME NEW S, IsFiniteSet(S), NEW f
  PROVE  \E g : Iterates(f, g, S)
<1> DEFINE Good(g, n) == \A s \in SUBSET S : Cardinality(s) < n => g[s] = Partial(f, g, s)
           Bad == {n \in Nat : ~\E g : Good(g, n)}
<1>1. \A s \in SUBSET S : /\ IsFiniteSet(s) /\ Cardinality(s) \in Nat
                          /\ Cardinality(s) <= Cardinality(S)
                          /\ \A x \in s : Cardinality(s \ {x}) = Cardinality(s) - 1
  BY FS_Subset, FS_CardinalityType, FS_RemoveElement
<1>2. Cardinality(S) \in Nat
  BY FS_CardinalityType
<1>3. ASSUME NEW n \in Nat, NEW g, Good(g, n)
      PROVE  \E h : Good(h, n + 1) /\ h = [s \in SUBSET S |-> Partial(f, g, s)]
  <2> DEFINE h == [s \in SUBSET S |-> Partial(f, g, s)]
  <2>1. ASSUME NEW s \in SUBSET S, Cardinality(s) < n + 1 PROVE h[s] = Partial(f, h, s)
    <3>1. CASE s = {}
      BY <3>1 DEF Partial
    <3>2. CASE s # {}
      <4> DEFINE x == CHOOSE x \in s : TRUE
      <4>1. x \in s
        BY <3>2
      <4> HIDE DEF x
      <4>2. Cardinality(s) \in Nat /\ Cardinality(s \ {x}) = Cardinality(s) - 1
        BY <1>1, <4>1
      <4>3. s \ {x} \in SUBSET S /\ Cardinality(s \ {x}) < n
        BY <2>1, <4>2
      <4>4. h[s \ {x}] = g[s \ {x}]
        BY <1>3, <4>3
      <4> QED BY <3>2, <4>4 DEF Partial, x
    <3> QED BY <3>1, <3>2
  <2> QED BY <2>1
<1>4. Bad = {}
  <2> SUFFICES ASSUME Bad # {} PROVE FALSE
    OBVIOUS
  <2> HIDE DEF Good
  <2>1. PICK n \in Bad : \A m \in Bad : n <= m
    <3>1. Bad \subseteq Nat
      OBVIOUS
    <3> HIDE DEF Bad
    <3> QED BY <3>1, LeastNumber
  <2>2. n # 0
    <3>1. Good([s \in SUBSET S |-> 0], 0)
      BY <1>1 DEF Good
    <3> QED BY <3>1
  <2>3. n - 1 \in Nat /\ n - 1 \notin Bad /\ n = (n - 1) + 1
    BY <2>1, <2>2
  <2> QED BY <1>3, <2>1, <2>3
<1>5. PICK g : Good(g, Cardinality(S) + 1)
  <2> HIDE DEF Good
  <2> QED BY <1>2, <1>4
<1>6. PICK h : h = [s \in SUBSET S |-> Partial(f, g, s)]
  OBVIOUS
<1>7. \A s \in SUBSET S : h[s] = g[s] /\ g[s] = Partial(f, g, s)
  BY <1>1, <1>2, <1>5, <1>6
<1>8. ASSUME NEW s \in SUBSET S PROVE Partial(f, h, s) = Partial(f, g, s)
  BY <1>7 DEF Partial
<1> QED BY <1>6, <1>8 DEF Iterates

\* Two of them agree on what both are defined for.
LEMMA PartialUnique ==
  ASSUME NEW S, IsFiniteSet(S), NEW T \in SUBSET S, NEW f,
         NEW g, Iterates(f, g, S), NEW h, Iterates(f, h, T)
  PROVE  g[T] = h[T]
<1> DEFINE Bad == {s \in SUBSET T : g[s] # h[s]}
<1>1. ASSUME Bad # {} PROVE FALSE
  <2>1. PICK s \in Bad : \A x \in s : s \ {x} \notin Bad
    <3>1. Bad \subseteq SUBSET T /\ IsFiniteSet(T)
      BY FS_Subset
    <3> HIDE DEF Bad
    <3> QED BY <1>1, <3>1, SmallestSet
  <2>2. g[s] = Partial(f, g, s) /\ h[s] = Partial(f, h, s)
    BY DEF Iterates
  <2>3. CASE s = {}
    BY <2>2, <2>3 DEF Partial
  <2>4. CASE s # {}
    <3>1. (CHOOSE x \in s : TRUE) \in s
      BY <2>4
    <3>2. g[s \ {CHOOSE x \in s : TRUE}] = h[s \ {CHOOSE x \in s : TRUE}]
      BY <2>1, <3>1
    <3> QED BY <2>2, <2>4, <3>2 DEF Partial
  <2> QED BY <2>3, <2>4
<1> QED BY <1>1

LEMMA TotalChosen ==
  ASSUME NEW S, IsFiniteSet(S), NEW f
  PROVE  /\ S = {} => Total(f, S) = 0
         /\ S # {} => \E x \in S : Total(f, S) = f[x] + Total(f, S \ {x})
<1> DEFINE Sums(T) == CHOOSE g : Iterates(f, g, T)
<1>1. ASSUME NEW T \in SUBSET S
      PROVE  Iterates(f, Sums(T), T) /\ Total(f, T) = Sums(T)[T]
  <2>1. IsFiniteSet(T)
    BY FS_Subset
  <2>2. \E g : Iterates(f, g, T)
    BY <2>1, PartialExists
  <2> QED BY <2>2, TotalIs
<1> HIDE DEF Sums
<1>2. S \in SUBSET S
  OBVIOUS
<1>3. Total(f, S) = Partial(f, Sums(S), S)
  BY <1>1, <1>2 DEF Iterates
<1>4. CASE S = {}
  BY <1>3, <1>4 DEF Partial
<1>5. CASE S # {}
  <2> DEFINE x == CHOOSE x \in S : TRUE
  <2>1. x \in S
    BY <1>5
  <2>2. Total(f, S) = f[x] + Sums(S)[S \ {x}]
    BY <1>3, <1>5 DEF Partial
  <2> HIDE DEF x
  <2>3. S \ {x} \in SUBSET S
    OBVIOUS
  <2>4. Sums(S)[S \ {x}] = Sums(S \ {x})[S \ {x}]
    BY <1>1, <1>2, <2>3, PartialUnique
  <2> QED BY <1>1, <2>1, <2>2, <2>3, <2>4
<1> QED BY <1>4, <1>5

\* A sum of integers is one.
LEMMA TotalType ==
  ASSUME NEW S, IsFiniteSet(S), NEW f, \A x \in S : f[x] \in Int
  PROVE  Total(f, S) \in Int
<1> DEFINE Bad == {T \in SUBSET S : Total(f, T) \notin Int}
<1>1. ASSUME Bad # {} PROVE FALSE
  <2>1. PICK T \in Bad : \A x \in T : T \ {x} \notin Bad
    <3>1. Bad \subseteq SUBSET S
      OBVIOUS
    <3> HIDE DEF Bad
    <3> QED BY <1>1, <3>1, SmallestSet
  <2>2. IsFiniteSet(T)
    BY FS_Subset
  <2>3. CASE T = {}
    BY <2>1, <2>3, FS_EmptySet, TotalChosen
  <2>4. CASE T # {}
    <3>1. PICK x \in T : Total(f, T) = f[x] + Total(f, T \ {x})
      BY <2>2, <2>4, TotalChosen
    <3>2. Total(f, T \ {x}) \in Int /\ f[x] \in Int
      BY <2>1
    <3>3. Total(f, T) \in Int
      BY <3>1, <3>2
    <3> QED BY <3>3
  <2> QED BY <2>3, <2>4
<1> QED BY <1>1

\* Any member may be taken out first.
LEMMA TotalRemove ==
  ASSUME NEW S, IsFiniteSet(S), NEW f, \A x \in S : f[x] \in Int, NEW x \in S
  PROVE  Total(f, S) = f[x] + Total(f, S \ {x})
<1> DEFINE Bad == {T \in SUBSET S : \E y \in T : Total(f, T) # f[y] + Total(f, T \ {y})}
<1>1. ASSUME Bad # {} PROVE FALSE
  <2>1. PICK T \in Bad : \A y \in T : T \ {y} \notin Bad
    <3>1. Bad \subseteq SUBSET S
      OBVIOUS
    <3> HIDE DEF Bad
    <3> QED BY <1>1, <3>1, SmallestSet
  <2>2. PICK y \in T : Total(f, T) # f[y] + Total(f, T \ {y})
    BY <2>1
  <2>3. IsFiniteSet(T) /\ T # {}
    BY <2>2, FS_Subset
  <2>4. PICK c \in T : Total(f, T) = f[c] + Total(f, T \ {c})
    BY <2>3, TotalChosen
  <2>5. CASE c = y
    BY <2>2, <2>4, <2>5
  <2>6. CASE c # y
    <3>1. /\ Total(f, T \ {c}) = f[y] + Total(f, (T \ {c}) \ {y})
          /\ Total(f, T \ {y}) = f[c] + Total(f, (T \ {y}) \ {c})
      BY <2>1, <2>6
    <3>2. (T \ {c}) \ {y} = (T \ {y}) \ {c}
      OBVIOUS
    <3>3. f[y] \in Int /\ f[c] \in Int /\ Total(f, (T \ {c}) \ {y}) \in Int
      <4>1. (T \ {c}) \ {y} \in SUBSET S
        OBVIOUS
      <4>2. IsFiniteSet((T \ {c}) \ {y})
        BY <4>1, FS_Subset
      <4> QED BY <4>1, <4>2, TotalType
    <3>4. f[c] + (f[y] + Total(f, (T \ {c}) \ {y})) = f[y] + (f[c] + Total(f, (T \ {c}) \ {y}))
      BY <3>3
    <3> QED BY <2>2, <2>4, <3>1, <3>2, <3>4
  <2> QED BY <2>5, <2>6
<1> QED BY <1>1

\* A change at one place.
LEMMA TotalChange ==
  ASSUME NEW S, IsFiniteSet(S), NEW f, NEW g, NEW k \in S,
         \A x \in S : f[x] \in Int /\ g[x] \in Int,
         \A x \in S \ {k} : g[x] = f[x]
  PROVE  /\ Total(f, S) \in Int
         /\ Total(g, S) = Total(f, S) + (g[k] - f[k])
<1>1. ASSUME NEW T \in SUBSET S, k \notin T PROVE Total(g, T) = Total(f, T)
  <2> DEFINE Bad == {U \in SUBSET T : Total(g, U) # Total(f, U)}
  <2>1. IsFiniteSet(T)
    BY FS_Subset
  <2>2. ASSUME Bad # {} PROVE FALSE
    <3>1. PICK U \in Bad : \A x \in U : U \ {x} \notin Bad
      <4>1. Bad \subseteq SUBSET T
        OBVIOUS
      <4> HIDE DEF Bad
      <4> QED BY <2>1, <2>2, <4>1, SmallestSet
    <3>2. IsFiniteSet(U) /\ U \in SUBSET S
      BY <2>1, FS_Subset
    <3>3. CASE U = {}
      BY <3>1, <3>2, <3>3, TotalChosen
    <3>4. CASE U # {}
      <4>1. PICK x \in U : TRUE
        BY <3>4
      <4>2. /\ Total(f, U) = f[x] + Total(f, U \ {x})
            /\ Total(g, U) = g[x] + Total(g, U \ {x})
        BY <3>2, TotalRemove
      <4>3. Total(g, U \ {x}) = Total(f, U \ {x}) /\ g[x] = f[x]
        BY <1>1, <3>1
      <4> QED BY <4>2, <4>3
    <3> QED BY <3>3, <3>4
  <2> QED BY <2>2
<1>2. /\ Total(f, S) = f[k] + Total(f, S \ {k})
      /\ Total(g, S) = g[k] + Total(g, S \ {k})
  BY TotalRemove
<1>3. Total(g, S \ {k}) = Total(f, S \ {k})
  BY <1>1
<1>4. Total(f, S \ {k}) \in Int
  <2>1. IsFiniteSet(S \ {k})
    BY FS_Subset
  <2> QED BY <2>1, TotalType
<1> QED BY <1>2, <1>3, <1>4

\* Larger terms have a larger sum.
LEMMA TotalMonotone ==
  ASSUME NEW S, IsFiniteSet(S), NEW f, NEW g,
         \A x \in S : f[x] \in Int /\ g[x] \in Int /\ f[x] <= g[x]
  PROVE  Total(f, S) <= Total(g, S)
<1> DEFINE Bad == {T \in SUBSET S : ~(Total(f, T) <= Total(g, T))}
<1>1. ASSUME Bad # {} PROVE FALSE
  <2>1. PICK T \in Bad : \A x \in T : T \ {x} \notin Bad
    <3>1. Bad \subseteq SUBSET S
      OBVIOUS
    <3> HIDE DEF Bad
    <3> QED BY <1>1, <3>1, SmallestSet
  <2>2. IsFiniteSet(T)
    BY FS_Subset
  <2>3. CASE T = {}
    BY <2>1, <2>2, <2>3, TotalChosen
  <2>4. CASE T # {}
    <3>1. PICK x \in T : TRUE
      BY <2>4
    <3>2. /\ Total(f, T) = f[x] + Total(f, T \ {x})
          /\ Total(g, T) = g[x] + Total(g, T \ {x})
      BY <2>2, TotalRemove
    <3>3. Total(f, T \ {x}) <= Total(g, T \ {x})
      BY <2>1
    <3>4. IsFiniteSet(T \ {x})
      BY <2>2, FS_RemoveElement
    <3>5. Total(f, T \ {x}) \in Int /\ Total(g, T \ {x}) \in Int
      BY <3>4, TotalType
    <3>6. Total(f, T) <= Total(g, T)
      BY <3>2, <3>3, <3>5
    <3> QED BY <3>6
  <2> QED BY <2>3, <2>4
<1> QED BY <1>1

\* The sum of sums.
LEMMA TotalPlus ==
  ASSUME NEW S, IsFiniteSet(S), NEW f, NEW g, NEW h,
         \A x \in S : f[x] \in Int /\ g[x] \in Int /\ h[x] = f[x] + g[x]
  PROVE  Total(h, S) = Total(f, S) + Total(g, S)
<1> DEFINE Bad == {T \in SUBSET S : Total(h, T) # Total(f, T) + Total(g, T)}
<1>1. ASSUME Bad # {} PROVE FALSE
  <2>1. PICK T \in Bad : \A x \in T : T \ {x} \notin Bad
    <3>1. Bad \subseteq SUBSET S
      OBVIOUS
    <3> HIDE DEF Bad
    <3> QED BY <1>1, <3>1, SmallestSet
  <2>2. IsFiniteSet(T)
    BY FS_Subset
  <2>3. CASE T = {}
    <3>1. Total(f, T) = 0 /\ Total(g, T) = 0 /\ Total(h, T) = 0
      BY <2>2, <2>3, TotalChosen
    <3> QED BY <2>1, <3>1
  <2>4. CASE T # {}
    <3>1. PICK x \in T : TRUE
      BY <2>4
    <3>2. \A y \in T : h[y] \in Int
      OBVIOUS
    <3>3. /\ Total(f, T) = f[x] + Total(f, T \ {x})
          /\ Total(g, T) = g[x] + Total(g, T \ {x})
          /\ Total(h, T) = h[x] + Total(h, T \ {x})
      BY <2>2, <3>2, TotalRemove
    <3>4. Total(h, T \ {x}) = Total(f, T \ {x}) + Total(g, T \ {x})
      BY <2>1
    <3>5. IsFiniteSet(T \ {x})
      BY <2>2, FS_RemoveElement
    <3>6. Total(f, T \ {x}) \in Int /\ Total(g, T \ {x}) \in Int
      BY <3>5, TotalType
    <3>7. Total(h, T) = Total(f, T) + Total(g, T)
      BY <3>3, <3>4, <3>6
    <3> QED BY <3>7
  <2> QED BY <2>3, <2>4
<1> QED BY <1>1

\* Terms of zero may be left out.
LEMMA TotalSubset ==
  ASSUME NEW S, IsFiniteSet(S), NEW R \in SUBSET S, NEW f, \A x \in S : f[x] \in Int,
         \A x \in S \ R : f[x] = 0
  PROVE  Total(f, R) = Total(f, S)
<1> DEFINE Bad == {T \in SUBSET S : R \subseteq T /\ Total(f, R) # Total(f, T)}
<1>1. ASSUME Bad # {} PROVE FALSE
  <2>1. PICK T \in Bad : \A x \in T : T \ {x} \notin Bad
    <3>1. Bad \subseteq SUBSET S
      OBVIOUS
    <3> HIDE DEF Bad
    <3> QED BY <1>1, <3>1, SmallestSet
  <2>2. PICK x \in T : x \notin R
    BY <2>1
  <2>3. IsFiniteSet(T)
    BY FS_Subset
  <2>4. Total(f, T) = f[x] + Total(f, T \ {x})
    BY <2>3, TotalRemove
  <2>5. Total(f, R) = Total(f, T \ {x}) /\ f[x] = 0
    BY <2>1, <2>2
  <2>6. IsFiniteSet(R)
    BY FS_Subset
  <2>7. Total(f, R) \in Int
    BY <2>6, TotalType
  <2> QED BY <2>1, <2>4, <2>5, <2>7
<1> QED BY <1>1

-----------------------------------------------------------------------------
(* What the ledger knows of the exchange.                                  *)

\* The figures (q, g) of an order, quantity and money, are earlier ones than (Q, G), and what was
\* filled in between was filled at no more than m.
Behind(q, g, Q, G, m) == q <= Q /\ g <= G /\ G - g <= (Q - q) * m

\* The book is behind the exchange.
Figures(m) ==
  \A k \in Keys :
    /\ ledger.book.fee[k] = 0
    /\ order[k] = None => ledger.book.qty[k] = 0 /\ ledger.book.gross[k] = 0
    /\ order[k] # None =>
         /\ order[k].filled <= order[k].size
         /\ order[k].st \in LiveStates => order[k].filled < order[k].size
         /\ order[k].st \in {"new", "canceled", "rejected"} => order[k].filled = 0
         /\ Behind(ledger.book.qty[k], ledger.book.gross[k], order[k].filled, order[k].gross, m)

\* Order k is filled and the book has all of it.
Whole(k) == order[k] # None /\ order[k].st = "filled" /\ ledger.book.qty[k] = order[k].filled

\* A fill that was recorded is in the book, unless the replay raised before it.
Recorded ==
  ~ledger.book.broken =>
    /\ \A k \in Keys : \A st \in FillStates : \A n \in Nat :
         <<"alpaca", k, st, n>> \in ledger.seen => n <= ledger.book.qty[k]
    /\ \A k \in Keys : ledger.status[k] = "FILLED" => Whole(k)

\* Report r was taken from its order after everything the book has of it, or tells of no fill.
Told(r, m) ==
  /\ r.currency = AccountCurrency /\ r.fee = 0
  /\ IsFill(r) =>
       /\ r.order = r.key /\ order[r.key] # None /\ r.side = order[r.key].side
       /\ r.id = <<"alpaca", r.key, r.status, r.qty>>
       /\ Behind(ledger.book.qty[r.key], ledger.book.gross[r.key], r.qty, r.gross, m)
       /\ Behind(r.qty, r.gross, order[r.key].filled, order[r.key].gross, m)
       /\ r.status = "FILLED" => order[r.key].st = "filled" /\ r.qty = order[r.key].filled
  /\ ~IsFill(r) => \A k \in Keys : \A st \in FillStates : \A n \in Nat :
                     r.id # <<"alpaca", k, st, n>>

Telling(m) ==
  /\ pc \in {"record", "cancel_record"} => Told(report, m)
  /\ pc = "reconcile" /\ Recognised(mem, report) => Told(report, m)
  /\ pc \in {"settle", "reconcile_settle"} /\ report.status = "FILLED" /\ ~ledger.book.broken =>
       Whole(report.key)

Evident(m) == Figures(m) /\ Recorded /\ Telling(m)

\* The exchange fills at no more than m.
Bounded(m) == m \in Nat /\ \A px \in FillPrices : px <= m

LEMMA BehindTransitive ==
  ASSUME NEW q1 \in Nat, NEW q2 \in Nat, NEW q3 \in Nat,
         NEW g1 \in Nat, NEW g2 \in Nat, NEW g3 \in Nat, NEW m \in Nat,
         Behind(q1, g1, q2, g2, m), Behind(q2, g2, q3, g3, m)
  PROVE  Behind(q1, g1, q3, g3, m)
<1>1. (q3 - q2) * m + (q2 - q1) * m = (q3 - q1) * m
  OBVIOUS
<1>2. (q3 - q2) * m \in Int /\ (q2 - q1) * m \in Int /\ (q3 - q1) * m \in Int
  OBVIOUS
<1> DEFINE a == (q3 - q2) * m
           b == (q2 - q1) * m
           c == (q3 - q1) * m
<1>3. a + b = c /\ a \in Int /\ b \in Int /\ c \in Int /\ g2 - g1 <= b /\ g3 - g2 <= a
  BY <1>1, <1>2 DEF Behind
<1>4. q1 <= q2 /\ q2 <= q3 /\ g1 <= g2 /\ g2 <= g3
  BY DEF Behind
<1> HIDE DEF a, b, c
<1>5. g3 - g1 <= c
  BY <1>3
<1> QED BY <1>4, <1>5 DEF Behind, c

\* The most that is paid for an order, if it goes on to its end.
Exposed(o, m) == IF o.st \in LiveStates THEN o.gross + (o.size - o.filled) * m ELSE o.gross

\* What an order has cost; a sale brings money.
Paid(o) == IF o = None THEN 0 ELSE IF o.side = "BUY" THEN o.gross ELSE -o.gross

\* Order o before and p after a step of the exchange.
Moved(o, p, m) ==
  /\ p.side = o.side /\ p.size = o.size
  /\ Behind(o.filled, o.gross, p.filled, p.gross, m)
  /\ p.filled <= p.size
  /\ p.st \in LiveStates => p.filled < p.size
  /\ p.st \in {"new", "canceled", "rejected"} => p.filled = 0
  /\ o.st = "filled" => p = o
  /\ Exposed(p, m) <= Exposed(o, m)

\* A step of the exchange, its own or at a request, moves one order.
LEMMA OrderMoves ==
  ASSUME Typing, ~CancelsAfterFills, NEW m \in Nat, Bounded(m), Figures(m),
         VenueActs \/ SendCancel
  PROVE  \E k \in Keys :
           /\ \A j \in Keys \ {k} : order'[j] = order[j]
           /\ \/ order'[k] = order[k] /\ spent' = spent
              \/ /\ order[k] = None /\ wire[k] # None /\ spent' = spent
                 /\ order'[k] = [st |-> "new", symbol |-> wire[k].symbol, side |-> wire[k].side,
                                 size |-> wire[k].qty, filled |-> 0, gross |-> 0, resumed |-> FALSE]
              \/ /\ order[k] # None /\ order'[k] # None /\ Moved(order[k], order'[k], m)
                 /\ spent' = spent + (Paid(order'[k]) - Paid(order[k]))
<1> DEFINE Goal(k) ==
       /\ \A j \in Keys \ {k} : order'[j] = order[j]
       /\ \/ order'[k] = order[k] /\ spent' = spent
          \/ /\ order[k] = None /\ wire[k] # None /\ spent' = spent
             /\ order'[k] = [st |-> "new", symbol |-> wire[k].symbol, side |-> wire[k].side,
                             size |-> wire[k].qty, filled |-> 0, gross |-> 0, resumed |-> FALSE]
          \/ /\ order[k] # None /\ order'[k] # None /\ Moved(order[k], order'[k], m)
             /\ spent' = spent + (Paid(order'[k]) - Paid(order[k]))
<1>1. order \in [Keys -> VenueOrders \cup {None}] /\ spent \in Int
  BY DEF Typing, TypeOK
<1>2. ASSUME NEW k \in Keys, Arrive(k) PROVE Goal(k)
  BY <1>1, <1>2 DEF Arrive
<1>3. ASSUME NEW k \in Keys, Vanish(k) PROVE Goal(k)
  BY <1>1, <1>3 DEF Vanish
<1>4. ASSUME NEW k \in Keys, NEW px \in FillPrices, Fill(k, px) PROVE Goal(k)
  <2> DEFINE o == order[k]
             p == order'[k]
             sign == IF o.side = "BUY" THEN 1 ELSE -1
  <2>1. o \in VenueOrders /\ o.st \in LiveStates /\ o.filled < o.size /\ px \in Nat /\ px <= m
    BY <1>1, <1>4, FillPricesAssumption DEF Fill, Live, Figures, Bounded
  <2>2. PICK st \in FillResults :
          /\ order' = [order EXCEPT ![k] = [order[k] EXCEPT !.st = st, !.filled = @ + 1,
                                                         !.gross = @ + px]]
          /\ st = "filled" <=> o.filled + 1 = o.size
    BY <1>4, FillOrder
  <2>3. (\A j \in Keys \ {k} : order'[j] = order[j]) /\ spent' = spent + sign * px
    BY <1>1, <1>4, <2>2 DEF Fill
  <2>4. p = [o EXCEPT !.st = st, !.filled = @ + 1, !.gross = @ + px]
    BY <1>1, <2>2
  <2>5. /\ p.side = o.side /\ p.size = o.size /\ p.filled = o.filled + 1
        /\ p.gross = o.gross + px /\ p.st = st
    BY <2>1, <2>4 DEF VenueOrders
  <2>6. /\ o.filled \in Nat /\ o.size \in Nat /\ o.gross \in Nat /\ o.side \in {"BUY", "SELL"}
    BY <2>1 DEF VenueOrders, OrderSide
  <2>7. p # None
    <3>1. o.filled + 1 \in Nat /\ o.gross + px \in Nat
      BY <2>1, <2>6
    <3>2. p \in VenueOrders
      BY <2>1, <2>4, <3>1 DEF VenueOrders, LiveStates, DetourStates, ClosedStates, FillResults
    <3> QED BY <3>2, NoneAssumption
  <2>8. o # None
    BY <2>1, NoneAssumption
  <2> HIDE DEF o, p
  <2>9. Paid(p) - Paid(o) = sign * px
    BY <2>1, <2>5, <2>6, <2>7, <2>8 DEF Paid
  <2>10. Behind(o.filled, o.gross, p.filled, p.gross, m)
    BY <2>1, <2>5, <2>6 DEF Behind
  <2>11. Exposed(p, m) <= Exposed(o, m)
    <3>1. (o.size - o.filled) * m = (o.size - (o.filled + 1)) * m + m
      BY <2>6
    <3>2. (o.size - (o.filled + 1)) * m \in Nat
      BY <2>1, <2>6
    <3>3. Exposed(o, m) = o.gross + (o.size - o.filled) * m
      BY <2>1 DEF Exposed
    <3>4. Exposed(p, m) \in {p.gross, p.gross + (o.size - (o.filled + 1)) * m}
      BY <2>5 DEF Exposed
    <3> DEFINE rest == (o.size - (o.filled + 1)) * m
    <3> HIDE DEF rest
    <3>5. rest \in Nat /\ Exposed(o, m) = o.gross + (rest + m)
      BY <3>1, <3>2, <3>3 DEF rest
    <3>6. Exposed(p, m) \in {o.gross + px, o.gross + px + rest}
      BY <2>5, <3>4 DEF rest
    <3> QED BY <2>1, <2>6, <3>5, <3>6
  <2>12. p.filled <= p.size /\ (p.st \in LiveStates => p.filled < p.size)
    BY <2>1, <2>2, <2>5, <2>6 DEF LiveStates, DetourStates, FillResults
  <2>13. o.st # "filled" /\ p.st \notin {"new", "canceled", "rejected"}
    BY <2>1, <2>2, <2>5 DEF LiveStates, DetourStates, FillResults
  <2>14. Moved(o, p, m)
    BY <2>5, <2>10, <2>11, <2>12, <2>13 DEF Moved
  <2> QED BY <2>3, <2>7, <2>8, <2>9, <2>14 DEF o, p
<1>5. ASSUME NEW k \in Keys, NEW st, Shift(k, st)
      PROVE  Goal(k)
  <2> DEFINE o == order[k]
             p == order'[k]
  <2>1. o \in VenueOrders /\ o.st \in LiveStates /\ o.filled < o.size
    BY <1>1, <1>5, ShiftOrder DEF Figures, Typing
  <2>2. p = InState(o, st) /\ (\A j \in Keys \ {k} : order'[j] = order[j]) /\ spent' = spent
    BY <1>5, ShiftOrder DEF Typing
  <2>3. /\ p.side = o.side /\ p.size = o.size /\ p.filled = o.filled /\ p.gross = o.gross
        /\ p.st = st /\ p \in VenueOrders
    BY <1>5, <2>1, <2>2, InStateOrder DEF Shift
  <2>4. o.filled \in Nat /\ o.size \in Nat /\ o.gross \in Nat
    BY <2>1 DEF VenueOrders
  <2>6. o # None /\ p # None
    BY <2>1, <2>3, NoneAssumption
  <2>7. st # "filled" /\ (st \in {"new", "canceled", "rejected"} => o.filled = 0)
    BY <1>5 DEF Shift
  <2> HIDE DEF o, p
  <2>8. Paid(p) = Paid(o) /\ Paid(o) \in Int
    BY <2>3, <2>4, <2>6 DEF Paid
  <2>9. Behind(o.filled, o.gross, p.filled, p.gross, m)
    BY <2>3, <2>4 DEF Behind
  <2>10. Exposed(p, m) <= Exposed(o, m)
    <3>1. (o.size - o.filled) * m \in Nat
      BY <2>1, <2>4
    <3>2. Exposed(o, m) = o.gross + (o.size - o.filled) * m
      BY <2>1 DEF Exposed
    <3>3. Exposed(p, m) \in {o.gross, o.gross + (o.size - o.filled) * m}
      BY <2>3 DEF Exposed
    <3> DEFINE rest == (o.size - o.filled) * m
    <3> HIDE DEF rest
    <3>4. rest \in Nat /\ Exposed(o, m) = o.gross + rest
      BY <3>1, <3>2 DEF rest
    <3>5. Exposed(p, m) \in {o.gross, o.gross + rest}
      BY <3>3 DEF rest
    <3> QED BY <2>4, <3>4, <3>5
  <2>11. Moved(o, p, m)
    BY <2>1, <2>3, <2>4, <2>7, <2>9, <2>10 DEF Moved, LiveStates, DetourStates
  <2>12. spent' = spent + (Paid(p) - Paid(o))
    BY <1>1, <2>2, <2>8
  <2> QED BY <2>2, <2>6, <2>11, <2>12 DEF o, p
<1>9. CASE VenueActs
  <2>1. PICK k \in Keys : VenueStep(k)
    BY <1>9 DEF VenueActs
  <2>2. Goal(k)
    BY <2>1, <1>2, <1>3, <1>4, <1>5, VenueMovesOrder
  <2> QED BY <2>2
<1>10. CASE SendCancel
  <2> DEFINE k == proposal.target
  <2>1. k \in Keys
    BY <1>10, KernelAssumption
       DEF SendCancel, At, Typing, TypeOK, Situation, HandlerSteps, Steps, ProposalType
  <2>2. CASE \E st : Shift(k, st)
    BY <2>1, <2>2, <1>5
  <2>3. CASE UNCHANGED venueVars
    <3>1. Goal(k)
      BY <2>3 DEF venueVars
    <3> QED BY <2>1, <3>1
  <2> QED BY <1>10, <2>2, <2>3, CancelMovesOrder
<1> QED BY <1>9, <1>10

\* What was a part of order o is a part of what the exchange made of it.
LEMMA MovedBehind ==
  ASSUME NEW o \in VenueOrders, NEW p \in VenueOrders, NEW m \in Nat, Moved(o, p, m),
         NEW q \in Nat, NEW g \in Nat, Behind(q, g, o.filled, o.gross, m)
  PROVE  Behind(q, g, p.filled, p.gross, m)
<1>1. /\ o.filled \in Nat /\ o.gross \in Nat /\ p.filled \in Nat /\ p.gross \in Nat
      /\ Behind(o.filled, o.gross, p.filled, p.gross, m)
  BY DEF VenueOrders, Moved
<1> QED BY <1>1, BehindTransitive

LEMMA VenueEvident ==
  ASSUME Typing, Typing', Submission, ~CancelsAfterFills, NEW m \in Nat, Bounded(m), Evident(m),
         VenueActs \/ SendCancel
  PROVE  Evident(m)'
<1>1. /\ UNCHANGED <<ledger, report, mem>>
      /\ UNCHANGED pc \/ pc' = "cancel_reply"
  BY DEF VenueActs, SendCancel, kernelVars, processVars, Goto
<1>2. PICK k \in Keys :
        /\ \A j \in Keys \ {k} : order'[j] = order[j]
        /\ \/ order'[k] = order[k]
           \/ /\ order[k] = None /\ wire[k] # None
              /\ order'[k] = [st |-> "new", symbol |-> wire[k].symbol, side |-> wire[k].side,
                              size |-> wire[k].qty, filled |-> 0, gross |-> 0, resumed |-> FALSE]
           \/ order[k] # None /\ order'[k] # None /\ Moved(order[k], order'[k], m)
  BY OrderMoves DEF Evident
<1>3. /\ \A j \in Keys : ledger.book.qty[j] \in Nat /\ ledger.book.gross[j] \in Nat
      /\ \A j \in Keys : order[j] # None => order[j] \in VenueOrders
      /\ \A j \in Keys : order'[j] # None => order'[j] \in VenueOrders
  BY DEF Typing, TypeOK, KernelStates, Books
<1>4. ASSUME NEW j \in Keys, order[j] # None, NEW q \in Nat, NEW g \in Nat,
             Behind(q, g, order[j].filled, order[j].gross, m)
      PROVE  order'[j] # None /\ Behind(q, g, order'[j].filled, order'[j].gross, m)
  BY <1>2, <1>3, <1>4, MovedBehind
<1>5. ASSUME NEW j \in Keys, order[j] # None
      PROVE  /\ order'[j] # None /\ order'[j].side = order[j].side
             /\ order[j].st = "filled" => order'[j] = order[j]
  BY <1>2, <1>5 DEF Moved
<1>6. Figures(m)'
  <2>1. ASSUME NEW j \in Keys, order'[j] # None
        PROVE  /\ order'[j].filled <= order'[j].size
               /\ order'[j].st \in LiveStates => order'[j].filled < order'[j].size
               /\ order'[j].st \in {"new", "canceled", "rejected"} => order'[j].filled = 0
               /\ Behind(ledger.book.qty[j], ledger.book.gross[j],
                         order'[j].filled, order'[j].gross, m)
    <3>1. CASE order'[j] = order[j]
      BY <1>3, <2>1, <3>1 DEF Evident, Figures
    <3>2. CASE j = k /\ order[k] = None /\ wire[k] # None /\ order'[k] # order[k]
      <4>1. order'[k] = [st |-> "new", symbol |-> wire[k].symbol, side |-> wire[k].side,
                         size |-> wire[k].qty, filled |-> 0, gross |-> 0, resumed |-> FALSE]
        BY <1>2, <3>2
      <4>2. wire[k].qty \in Nat \ {0}
        BY <3>2 DEF Typing, TypeOK, Intents
      <4>3. ledger.book.qty[k] = 0 /\ ledger.book.gross[k] = 0
        BY <3>2 DEF Evident, Figures
      <4> QED BY <3>2, <4>1, <4>2, <4>3 DEF Behind
    <3>3. CASE j = k /\ order[k] # None /\ order'[k] # None /\ Moved(order[k], order'[k], m)
      <4>1. Behind(ledger.book.qty[j], ledger.book.gross[j], order[j].filled, order[j].gross, m)
        BY <3>3 DEF Evident, Figures
      <4> QED BY <1>3, <1>4, <3>3, <4>1 DEF Moved
    <3> QED BY <1>2, <3>1, <3>2, <3>3
  <2>2. \A j \in Keys : order'[j] = None => order[j] = None
    BY <1>5
  <2> QED BY <1>1, <2>1, <2>2 DEF Evident, Figures
<1>7. ASSUME NEW j \in Keys, Whole(j) PROVE Whole(j)'
  BY <1>1, <1>5, <1>7 DEF Whole
<1>8. Recorded'
  BY <1>1, <1>7 DEF Evident, Recorded, Whole
<1>9. ASSUME NEW r \in Reports, Told(r, m) PROVE Told(r, m)'
  <2>1. CASE ~IsFill(r)
    BY <1>1, <1>9, <2>1 DEF Told
  <2>2. CASE IsFill(r)
    <3>1. r.key \in Keys /\ r.qty \in Nat /\ r.gross \in Nat /\ order[r.key] # None
      BY <1>9, <2>2 DEF Reports, Told
    <3>2. Behind(r.qty, r.gross, order'[r.key].filled, order'[r.key].gross, m)
      BY <1>4, <1>9, <2>2, <3>1 DEF Told
    <3>3. r.status = "FILLED" => order'[r.key].st = "filled" /\ r.qty = order'[r.key].filled
      BY <1>5, <1>9, <2>2, <3>1 DEF Told
    <3> QED BY <1>1, <1>5, <1>9, <2>2, <3>1, <3>2, <3>3 DEF Told
  <2> QED BY <2>1, <2>2
<1>10. Telling(m)'
  <2>1. CASE pc' = "cancel_reply"
    BY <2>1 DEF Telling
  <2>2. CASE UNCHANGED pc
    <3>1. pc \in ReportSteps => report \in Reports
      BY DEF Typing, Situation
    <3>2. ASSUME pc \in ReportSteps, Told(report, m) PROVE Told(report, m)'
      <4>1. PICK r \in Reports : r = report
        BY <3>1, <3>2
      <4>2. Told(r, m)' /\ report' = r
        BY <1>1, <1>9, <3>2, <4>1
      <4> QED BY <4>2 DEF Told
    <3>3. ASSUME pc \in ReportSteps, Whole(report.key) PROVE Whole(report.key)'
      <4>1. report.key \in Keys
        BY <3>1, <3>3 DEF Reports
      <4>2. PICK j \in Keys : j = report.key
        BY <4>1
      <4>3. Whole(j)' /\ report'.key = j
        BY <1>1, <1>7, <3>3, <4>2
      <4> QED BY <4>3 DEF Whole
    <3> QED BY <1>1, <2>2, <3>2, <3>3 DEF Evident, Telling, Recognised, ReportSteps
  <2> QED BY <1>1, <2>1, <2>2
<1> QED BY <1>6, <1>8, <1>10 DEF Evident

\* Steps that leave the book and the exchange alone.
LEMMA QuietEvident ==
  ASSUME NEW m \in Nat, Evident(m), order' = order, ledger'.book = ledger.book,
         ledger'.seen = ledger.seen,
         \A k \in Keys : \/ ledger'.status[k] # "FILLED" \/ ledger.status[k] = "FILLED"
                         \/ ~ledger.book.broken => Whole(k),
         Telling(m)'
  PROVE  Evident(m)'
<1>1. Figures(m)'
  BY DEF Evident, Figures
<1>2. Recorded'
  BY DEF Evident, Recorded, Whole
<1> QED BY <1>1, <1>2 DEF Evident

LEMMA SnapshotTold ==
  ASSUME Typing, NEW m \in Nat, Figures(m), NEW k \in Keys, order[k] # None
  PROVE  Told(Snapshot(k), m)
<1>1. order[k] \in VenueOrders
  BY DEF Typing, TypeOK
<1>2. MapStatus(order[k].st) = "FILLED" => order[k].st = "filled"
  BY DEF MapStatus
<1>3. /\ Snapshot(k).key = k /\ Snapshot(k).order = k
      /\ Snapshot(k).id = <<"alpaca", k, MapStatus(order[k].st), order[k].filled>>
      /\ Snapshot(k).status = MapStatus(order[k].st)
      /\ Snapshot(k).side = order[k].side
      /\ Snapshot(k).qty = order[k].filled /\ Snapshot(k).gross = order[k].gross
      /\ Snapshot(k).fee = 0 /\ Snapshot(k).currency = AccountCurrency
  BY DEF Snapshot
<1>4. order[k].filled \in Nat /\ order[k].gross \in Nat
  BY <1>1 DEF VenueOrders
<1>5. Behind(order[k].filled, order[k].gross, order[k].filled, order[k].gross, m)
  BY <1>4 DEF Behind
<1>6. Behind(ledger.book.qty[k], ledger.book.gross[k], order[k].filled, order[k].gross, m)
  BY DEF Figures
<1>7. CASE IsFill(Snapshot(k))
  BY <1>2, <1>3, <1>5, <1>6, <1>7 DEF Told
<1>8. CASE ~IsFill(Snapshot(k))
  <2>1. MapStatus(order[k].st) \notin FillStates
    BY <1>3, <1>8 DEF IsFill
  <2>2. \A j \in Keys : \A st \in FillStates : \A n \in Nat :
          Snapshot(k).id # <<"alpaca", j, st, n>>
    BY <1>3, <2>1
  <2> QED BY <1>3, <1>8, <2>2 DEF Told
<1> QED BY <1>7, <1>8

\* The book takes a report in: it comes closer to the exchange, and a complete fill is all there.
LEMMA RecordEvident ==
  ASSUME Typing, mem = ledger, NEW m \in Nat, Figures(m), Recorded, NEW r \in Reports, Told(r, m),
         Record(r), order' = order
  PROVE  /\ Figures(m)' /\ Recorded'
         /\ r.status = "FILLED" /\ ~ledger'.book.broken => Whole(r.key)'
<1> DEFINE b == ledger.book
           c == ledger'.book
           k == r.key
<1>1. b \in Books /\ k \in Keys /\ r.qty \in Nat /\ r.gross \in Nat
  BY DEF Typing, TypeOK, KernelStates, Reports
<1>2. ledger'.status = ledger.status
  BY RecordKnown DEF Typing
<1>3. \A j \in Keys : b.qty[j] \in Nat /\ b.gross[j] \in Nat /\ b.fee[j] \in Nat
  BY <1>1 DEF Books
<1>4. CASE r.id \in ledger.seen
  <2>1. ledger' = ledger
    BY <1>4 DEF Record
  <2>2. Figures(m)' /\ Recorded'
    BY <2>1 DEF Figures, Recorded, Whole
  <2>3. ASSUME r.status = "FILLED", ~b.broken PROVE Whole(k)
    <3>1. IsFill(r) /\ "FILLED" \in FillStates
      BY <2>3 DEF IsFill, FillStates
    <3>2. /\ order[k] # None /\ order[k].st = "filled" /\ r.qty = order[k].filled
          /\ b.qty[k] <= r.qty /\ r.id = <<"alpaca", k, "FILLED", r.qty>>
      BY <2>3, <3>1 DEF Told, Behind
    <3>3. r.qty <= b.qty[k]
      BY <1>1, <1>4, <2>3, <3>1, <3>2 DEF Recorded
    <3> QED BY <1>1, <1>3, <3>2, <3>3 DEF Whole
  <2> QED BY <2>1, <2>2, <2>3 DEF Whole
<1>5. CASE r.id \notin ledger.seen
  <2>1. ledger'.seen = ledger.seen \cup {r.id} /\ c = ApplyReport(b, r)
    BY <1>5 DEF Record, HydratedReport, Typing, TypeOK, KernelStates
  <2>2. CASE c = b /\ (b.broken \/ ~IsFill(r))
    <3>1. Figures(m)'
      BY <2>2 DEF Figures
    <3>2. r.status = "FILLED" => IsFill(r)
      BY DEF IsFill, FillStates
    <3>3. ~IsFill(r) => \A j \in Keys : \A st \in FillStates : \A n \in Nat :
                          r.id # <<"alpaca", j, st, n>>
      BY DEF Told
    <3>4. Recorded'
      BY <1>2, <2>1, <2>2, <3>3 DEF Recorded, Whole
    <3> QED BY <2>2, <3>1, <3>2, <3>4
  <2>3. CASE c = [b EXCEPT !.broken = TRUE]
    <3>1. c.broken /\ c.qty = b.qty /\ c.gross = b.gross /\ c.fee = b.fee
      BY <1>1, <2>3 DEF Books
    <3>2. Figures(m)'
      BY <3>1 DEF Figures
    <3> QED BY <3>1, <3>2 DEF Recorded
  <2>4. CASE c = WithFill(b, r) /\ IsFill(r) /\ ~b.broken
    <3>1. /\ r.order = k /\ order[k] # None
          /\ r.id = <<"alpaca", k, r.status, r.qty>> /\ r.fee = 0
          /\ Behind(b.qty[k], b.gross[k], r.qty, r.gross, m)
          /\ Behind(r.qty, r.gross, order[k].filled, order[k].gross, m)
          /\ r.status = "FILLED" => order[k].st = "filled" /\ r.qty = order[k].filled
      BY <2>4 DEF Told
    <3>2. /\ c.qty = [b.qty EXCEPT ![k] = r.qty] /\ c.gross = [b.gross EXCEPT ![k] = r.gross]
          /\ c.fee = [b.fee EXCEPT ![k] = r.fee]
      BY <2>4, <3>1 DEF WithFill
    <3>3. /\ c.qty[k] = r.qty /\ c.gross[k] = r.gross /\ c.fee[k] = 0
          /\ \A j \in Keys \ {k} : /\ c.qty[j] = b.qty[j] /\ c.gross[j] = b.gross[j]
                                   /\ c.fee[j] = b.fee[j]
      BY <1>1, <3>1, <3>2 DEF Books
    <3> HIDE DEF b, c, k
    <3>4. Figures(m)'
      <4>1. ASSUME NEW j \in Keys
            PROVE  /\ c.fee[j] = 0
                   /\ order[j] = None => c.qty[j] = 0 /\ c.gross[j] = 0
                   /\ order[j] # None =>
                        /\ order[j].filled <= order[j].size
                        /\ order[j].st \in LiveStates => order[j].filled < order[j].size
                        /\ order[j].st \in {"new", "canceled", "rejected"} => order[j].filled = 0
                        /\ Behind(c.qty[j], c.gross[j], order[j].filled, order[j].gross, m)
        <5>1. CASE j = k
          BY <3>1, <3>3, <5>1 DEF Figures
        <5>2. CASE j # k
          BY <3>3, <5>2 DEF Figures, b
        <5> QED BY <5>1, <5>2
      <4> QED BY <4>1 DEF Figures, c
    <3>5. r.status = "FILLED" => Whole(k)'
      BY <3>1, <3>3 DEF Whole, c
    <3>6. Recorded'
      <4>1. ASSUME NEW j \in Keys, NEW st \in FillStates, NEW n \in Nat,
                   <<"alpaca", j, st, n>> \in ledger'.seen
            PROVE  n <= c.qty[j]
        <5>1. CASE <<"alpaca", j, st, n>> \in ledger.seen
          <6>1. n <= b.qty[j]
            BY <2>4, <5>1 DEF Recorded, b
          <6> QED BY <1>1, <1>3, <3>1, <3>3, <6>1 DEF Behind
        <5>2. CASE <<"alpaca", j, st, n>> \notin ledger.seen
          BY <1>1, <2>1, <3>1, <3>3, <4>1, <5>2
        <5> QED BY <5>1, <5>2
      <4>2. ASSUME NEW j \in Keys, ledger.status[j] = "FILLED" PROVE Whole(j)'
        <5>1. Whole(j)
          BY <2>4, <4>2 DEF Recorded, b
        <5>2. CASE j # k
          BY <3>3, <5>1, <5>2 DEF Whole, b, c
        <5>3. CASE j = k
          <6>1. order[k] \in VenueOrders
            BY <1>1, <3>1 DEF Typing, TypeOK
          <6>2. order[k].filled \in Nat /\ b.qty[k] \in Nat
            BY <1>1, <1>3, <6>1 DEF VenueOrders
          <6>3. b.qty[k] = r.qty
            BY <1>1, <3>1, <5>1, <5>3, <6>2 DEF Whole, Behind, b
          <6> QED BY <3>3, <5>1, <5>3, <6>3 DEF Whole, b, c
        <5> QED BY <5>2, <5>3
      <4> QED BY <1>2, <4>1, <4>2 DEF Recorded, Whole, c
    <3> QED BY <3>4, <3>5, <3>6 DEF k
  <2>5. r.currency = AccountCurrency
    BY DEF Told
  <2>6. ASSUME IsFill(r) PROVE ~Regressed(b, r)
    <3>1. r.order = k /\ b.qty[k] <= r.qty /\ b.gross[k] <= r.gross /\ r.fee = 0 /\ b.fee[k] = 0
      BY <1>1, <2>6 DEF Told, Behind, Figures
    <3> QED BY <1>1, <1>3, <3>1 DEF Regressed
  <2> QED BY <2>1, <2>2, <2>3, <2>4, <2>5, <2>6 DEF ApplyReport
<1> QED BY <1>4, <1>5

LEMMA NextEvident ==
  ASSUME Typing, Typing', Durable, Submission, Closure, ~CancelsAfterFills,
         NEW m \in Nat, Bounded(m), Evident(m), [Next]_vars
  PROVE  Evident(m)'
<1>1. ASSUME pc' \notin ReportSteps PROVE Telling(m)'
  BY <1>1 DEF Telling, ReportSteps
<1>2. ASSUME NEW p \in Proposals, Receive(p) PROVE Evident(m)'
  <2>1. /\ pc' \notin ReportSteps /\ order' = order
        /\ ledger'.book = ledger.book /\ ledger'.seen = ledger.seen
        /\ ledger'.status = ledger.status
    BY <1>2 DEF Receive, HydratedProposal, Goto, Raise, Return, ReportSteps, Typing, TypeOK,
                KernelStates, venueVars
  <2> QED BY <1>1, <2>1, QuietEvident
<1>3. ASSUME Decide PROVE Evident(m)'
  <2>1. /\ pc' \notin ReportSteps /\ order' = order
        /\ ledger'.book = ledger.book /\ ledger'.seen = ledger.seen
        /\ ledger'.status = ledger.status
    BY <1>3 DEF Decide, AfterApproval, HydratedDecision, Goto, Return, ReportSteps, Typing, TypeOK,
                KernelStates, venueVars
  <2> QED BY <1>1, <2>1, QuietEvident
<1>4. ASSUME CreateIntent PROVE Evident(m)'
  <2>1. /\ pc' \notin ReportSteps /\ order' = order
        /\ ledger'.book = ledger.book /\ ledger'.seen = ledger.seen
        /\ \A k \in Keys : ledger'.status[k] \in {ledger.status[k], "CREATED"}
    BY <1>4 DEF CreateIntent, HydratedTransition, HydratedIntent, Goto, ReportSteps, Typing, TypeOK,
                KernelStates, venueVars
  <2> QED BY <1>1, <2>1, QuietEvident
<1>5. ASSUME Validate \/ MarkSubmitting PROVE Evident(m)'
  <2>1. /\ pc' \notin ReportSteps /\ order' = order
        /\ ledger'.book = ledger.book /\ ledger'.seen = ledger.seen
        /\ \A k \in Keys : ledger'.status[k] \in {ledger.status[k], "VALIDATED", "SUBMITTING"}
    BY <1>5 DEF Validate, MarkSubmitting, Advance, Transition, HydratedTransition, Goto, Return,
                ReportSteps, Typing, TypeOK, KernelStates, venueVars
  <2> QED BY <1>1, <2>1, QuietEvident
<1>6. ASSUME \/ SubmitRaises \/ ReplyRaises \/ CancelRaises \/ Start \/ Stop \/ Crash
      PROVE  Evident(m)'
  <2>1. pc' \notin ReportSteps /\ order' = order /\ ledger' = ledger
    BY <1>6 DEF SubmitRaises, ReplyRaises, CancelRaises, Start, Stop, Crash, Raise, Return, Goto,
                ReportSteps, venueVars
  <2> QED BY <1>1, <2>1, QuietEvident
<1>7. ASSUME UNCHANGED vars \/ \E next \in OwnerModes : SetMode(next) PROVE Evident(m)'
  <2>1. UNCHANGED <<pc, report, mem, ledger, order>>
    BY <1>7 DEF SetMode, vars, kernelVars, processVars, venueVars
  <2>2. Telling(m)'
    BY <2>1 DEF Evident, Telling, Told, Whole, Recognised
  <2> QED BY <2>1, <2>2, QuietEvident
<1>8. ASSUME NEW k \in Keys, order[k] # None, report' = Snapshot(k), pc' \in {"record", "reconcile"},
             ledger' = ledger, order' = order
      PROVE  Evident(m)'
  <2>1. Told(Snapshot(k), m)
    BY <1>8, SnapshotTold DEF Evident
  <2>2. PICK r : r = Snapshot(k)
    OBVIOUS
  <2>3. Told(r, m)
    BY <2>1, <2>2
  <2>4. Told(r, m)'
    BY <1>8, <2>3 DEF Told
  <2>5. Telling(m)'
    BY <1>8, <2>2, <2>4 DEF Telling, Told
  <2> QED BY <1>8, <2>5, QuietEvident
<1>9. ASSUME Submit PROVE Evident(m)'
  <2> DEFINE i == mem.intent[proposal.key]
  <2>1. i.key \in Keys /\ order' = order /\ ledger' = ledger
    BY <1>9, KernelAssumption
       DEF Submit, At, Typing, TypeOK, Situation, IntentSteps, HandlerSteps, Steps, KernelStates,
           Intents, ProposalType
  <2>2. CASE order[i.key] # None
    <3>1. report' = Snapshot(i.key) /\ pc' = "record"
      BY <1>9, <2>2 DEF Submit, Goto
    <3> QED BY <1>8, <2>1, <2>2, <3>1
  <2>3. CASE order[i.key] = None
    <3>1. pc' \notin ReportSteps
      BY <1>9, <2>3 DEF Submit, Goto, ReportSteps
    <3> QED BY <1>1, <2>1, <3>1, QuietEvident
  <2> QED BY <2>2, <2>3
<1>10. ASSUME ReplyKnown PROVE Evident(m)'
  <2>1. proposal.key \in Keys
    BY <1>10, KernelAssumption
       DEF ReplyKnown, At, Typing, Situation, HandlerSteps, Steps, ProposalType
  <2> QED BY <1>8, <1>10, <2>1 DEF ReplyKnown, Goto, venueVars
<1>11. ASSUME ReplyUnknown PROVE Evident(m)'
  <2>1. PICK i : i = mem.intent[proposal.key]
    OBVIOUS
  <2>2. PICK r : r = UnknownReport(i)
    OBVIOUS
  <2>3. pc' = "record" /\ report' = r /\ ledger' = ledger /\ order' = order
    BY <1>11, <2>1, <2>2 DEF ReplyUnknown, Goto, venueVars
  <2>4. /\ r.currency = AccountCurrency /\ r.fee = 0 /\ r.status = "UNKNOWN"
        /\ r.id = <<"unknown", i.key, "UNKNOWN", 0>>
    BY <2>2 DEF UnknownReport
  <2>5. Told(r, m)'
    BY <2>4 DEF Told, IsFill, FillStates
  <2>6. Telling(m)'
    BY <2>3, <2>5 DEF Telling, Told
  <2> QED BY <2>3, <2>6, QuietEvident
<1>12. ASSUME NEW k \in Keys, LookUp(k) PROVE Evident(m)'
  BY <1>8, <1>12 DEF LookUp, Goto, venueVars
<1>13. ASSUME NEW k \in Keys, NEW claimed \in Keys, ForeignReport(k, claimed) PROVE Evident(m)'
  <2>1. /\ pc' = "reconcile" /\ ledger' = ledger /\ order' = order /\ mem' = mem
    BY <1>13 DEF ForeignReport, Goto, venueVars
  <2>2. ~Recognised(mem, report')
    BY <1>13 DEF ForeignReport
  <2>3. ~Recognised(mem, report)'
    BY <2>1, <2>2 DEF Recognised
  <2>4. Telling(m)'
    BY <2>1, <2>3 DEF Telling
  <2> QED BY <2>1, <2>4, QuietEvident
<1>14. ASSUME CancelReply PROVE Evident(m)'
  <2> DEFINE t == proposal.target
  <2>1. /\ pc' \in {"idle", "cancel_record"} /\ t \in Keys /\ order' = order
        /\ \A k \in Keys : ledger'.status[k] \in {ledger.status[k], "CANCELLED"}
    BY <1>14, CancelReplyStatus DEF Typing, TypeOK, KernelStates
  <2>2. ledger'.book = ledger.book /\ ledger'.seen = ledger.seen
    BY <1>14 DEF CancelReply, Transition, HydratedTransition, FailSafe, Typing, TypeOK, KernelStates
  <2>3. ASSUME pc' = "cancel_record" PROVE Told(report, m)'
    <3>1. PICK a : a = Snapshot(t)
      OBVIOUS
    <3>2. report' = [a EXCEPT !.id = <<"cancel", a.order, proposal.key, 0>>,
                              !.key = proposal.key,
                              !.status = IF Confirmed(@) THEN @ ELSE "UNKNOWN",
                              !.qty = 0, !.gross = 0]
      BY <1>14, <2>3, <3>1 DEF CancelReply, FailSafe, Return, Goto
    <3>3. order[t] # None
      BY <1>14 DEF CancelReply, At, Typing, Situation
    <3>4. a \in Reports /\ a.currency = AccountCurrency /\ a.fee = 0
      BY <2>1, <3>1, <3>3, SnapshotType DEF Typing, TypeOK, Snapshot
    <3>5. /\ report'.currency = AccountCurrency /\ report'.fee = 0
          /\ report'.status \in {"CANCELLED", "UNKNOWN"}
          /\ report'.id = <<"cancel", a.order, proposal.key, 0>>
      BY <3>2, <3>4 DEF Reports, Confirmed
    <3> QED BY <3>5 DEF Told, IsFill, FillStates
  <2>4. Telling(m)'
    BY <2>1, <2>3 DEF Telling
  <2> QED BY <2>1, <2>2, <2>4, QuietEvident
<1>15. ASSUME SettleSubmission \/ SettleReconciliation PROVE Evident(m)'
  <2>1. /\ pc \in {"settle", "reconcile_settle"} /\ pc' = "idle" /\ report.key \in Keys
        /\ order' = order
        /\ \/ UNCHANGED ledger
           \/ ledger'.status = [ledger.status EXCEPT ![report.key] = Normalise(report.status)]
    BY <1>15, SettleStatus DEF SettleSubmission, SettleReconciliation
  <2>2. ledger'.book = ledger.book /\ ledger'.seen = ledger.seen
    BY <1>15 DEF SettleSubmission, SettleReconciliation, Settle, Transition, HydratedTransition,
                 FailSafe, Typing, TypeOK, KernelStates
  <2>3. Normalise(report.status) = "FILLED" => report.status = "FILLED"
    BY DEF Normalise
  <2>4. ASSUME NEW k \in Keys, ledger'.status[k] = "FILLED", ledger.status[k] # "FILLED",
               ~ledger.book.broken
        PROVE  Whole(k)
    <3>1. k = report.key /\ report.status = "FILLED"
      BY <2>1, <2>3, <2>4 DEF Typing, TypeOK, KernelStates
    <3> QED BY <2>1, <2>4, <3>1 DEF Evident, Telling
  <2>5. Telling(m)'
    BY <2>1 DEF Telling
  <2> QED BY <2>1, <2>2, <2>4, <2>5, QuietEvident
<1>16. ASSUME RecordSubmission \/ RecordCancellation \/ (Reconcile /\ Recognised(mem, report))
       PROVE  Evident(m)'
  <2>1. /\ Record(report) /\ mem = ledger /\ report \in Reports /\ order' = order
        /\ Told(report, m)
        /\ \/ pc' = "idle"
           \/ pc' \in {"settle", "reconcile_settle"} /\ report' = report
    BY <1>16 DEF RecordSubmission, RecordReport, RecordCancellation, Reconcile, At, Goto, Return,
                 Durable, Typing, Situation, ReportSteps, Evident, Telling, venueVars
  <2>2. PICK r \in Reports : r = report
    BY <2>1
  <2>3. Record(r) /\ Told(r, m)
    BY <2>1, <2>2
  <2>4. /\ Figures(m)' /\ Recorded'
        /\ r.status = "FILLED" /\ ~ledger'.book.broken => Whole(r.key)'
    BY <2>1, <2>3, RecordEvident DEF Evident
  <2>5. Telling(m)'
    BY <2>1, <2>2, <2>4 DEF Telling, Whole
  <2> QED BY <2>4, <2>5 DEF Evident
<1>17. ASSUME Reconcile, ~Recognised(mem, report) PROVE Evident(m)'
  <2>1. pc' \notin ReportSteps /\ order' = order /\ ledger' = ledger
    BY <1>17 DEF Reconcile, FailSafe, Return, ReportSteps, venueVars
  <2> QED BY <1>1, <2>1, QuietEvident
<1>18. ASSUME VenueActs \/ SendCancel PROVE Evident(m)'
  BY <1>18, VenueEvident
<1>19. CASE HandleProposal
  BY <1>19, <1>2, <1>3, <1>4, <1>5, <1>6, <1>9, <1>10, <1>11, <1>15, <1>16 DEF HandleProposal
<1>20. CASE HandleCancel
  BY <1>20, <1>6, <1>14, <1>16, <1>18 DEF HandleCancel
<1>21. CASE ReconcileReport
  BY <1>21, <1>12, <1>15, <1>16, <1>17 DEF ReconcileReport
<1> QED BY <1>6, <1>7, <1>13, <1>18, <1>19, <1>20, <1>21 DEF Next

-----------------------------------------------------------------------------
(* Estimates.                                                              *)

\* Cost estimate c makes intent i pay for its fills at price m.
Covers(i, c, m) == i.qty * m <= i.qty * i.price + c

\* Every estimate a proposal brings for a key covers what any purchase under that key may cost.
EstimatesCover(m) ==
  \A p, q \in Proposals :
    p.action \in Opening /\ p.qty # None /\ p.key = q.key =>
      p.qty * m <= p.qty * p.price + q.cost

Purchase(i) == i # None /\ i.side = "BUY"

\* The estimate of an open purchase covers it, and so will the next one under its key.
Estimated(m) ==
  /\ \A k \in Keys : Purchase(ledger.intent[k]) =>
       /\ Covers(ledger.intent[k], ledger.cost[k], m)
       /\ \A p \in Proposals : p.key = k => Covers(ledger.intent[k], p.cost, m)
  /\ pc = "evaluate" => Replayable(ledger.book)
  /\ pc \in {"evaluate", "create_intent"} => ledger.cost[proposal.key] = proposal.cost
  /\ pc = "create_intent" => ledger.intent[proposal.key] = None

\* A step that leaves book, intents, estimates and account alone, and no decision to make.
Neutral ==
  /\ ledger'.book = ledger.book /\ ledger'.intent = ledger.intent /\ ledger'.cost = ledger.cost
  /\ order' = order /\ spent' = spent
  /\ pc' \notin {"evaluate", "create_intent"} \/ UNCHANGED <<pc, proposal>>

\* The steps that are not neutral.
LEMMA StepKinds ==
  ASSUME Typing, Durable, NEW m \in Nat, Evident(m), [Next]_vars
  PROVE  \/ \E p \in Proposals : Receive(p)
         \/ Decide \/ CreateIntent \/ VenueActs \/ SendCancel
         \/ /\ mem = ledger /\ order' = order /\ spent' = spent
            /\ pc' \notin {"evaluate", "create_intent"}
            /\ \E r \in Reports : Record(r) /\ Told(r, m)
         \/ Neutral
<1>1. ASSUME Validate \/ MarkSubmitting PROVE Neutral
  BY <1>1 DEF Validate, MarkSubmitting, Advance, Transition, HydratedTransition, Goto, Return,
              Typing, TypeOK, KernelStates, venueVars, Neutral
<1>2. ASSUME \/ SubmitRaises \/ ReplyRaises \/ CancelRaises \/ Start \/ Stop \/ Crash
      PROVE  Neutral
  BY <1>2 DEF SubmitRaises, ReplyRaises, CancelRaises, Start, Stop, Crash, Raise, Return, Goto,
              venueVars, Neutral
<1>3. ASSUME UNCHANGED vars \/ \E next \in OwnerModes : SetMode(next) PROVE Neutral
  BY <1>3 DEF SetMode, vars, kernelVars, processVars, venueVars, Neutral
<1>4. ASSUME Submit \/ ReplyKnown \/ ReplyUnknown PROVE Neutral
  BY <1>4 DEF Submit, ReplyKnown, ReplyUnknown, Goto, venueVars, Neutral
<1>5. ASSUME \/ \E k \in Keys : LookUp(k)
             \/ \E k, claimed \in Keys : ForeignReport(k, claimed)
      PROVE  Neutral
  BY <1>5 DEF LookUp, ForeignReport, Goto, venueVars, Neutral
<1>6. ASSUME CancelReply PROVE Neutral
  <2>1. pc' \in {"idle", "cancel_record"} /\ order' = order /\ spent' = spent
    BY <1>6 DEF CancelReply, FailSafe, Return, Goto, venueVars
  <2>2. /\ ledger'.book = ledger.book /\ ledger'.intent = ledger.intent
        /\ ledger'.cost = ledger.cost
    BY <1>6 DEF CancelReply, Transition, HydratedTransition, FailSafe, Typing, TypeOK, KernelStates
  <2> QED BY <2>1, <2>2 DEF Neutral
<1>7. ASSUME SettleSubmission \/ SettleReconciliation PROVE Neutral
  BY <1>7 DEF SettleSubmission, SettleReconciliation, Settle, Transition, HydratedTransition,
              FailSafe, Return, Typing, TypeOK, KernelStates, venueVars, Neutral
<1>8. ASSUME RecordSubmission \/ RecordCancellation \/ (Reconcile /\ Recognised(mem, report))
      PROVE  /\ mem = ledger /\ order' = order /\ spent' = spent
             /\ pc' \notin {"evaluate", "create_intent"}
             /\ \E r \in Reports : Record(r) /\ Told(r, m)
  <2>1. /\ Record(report) /\ mem = ledger /\ report \in Reports /\ order' = order
        /\ spent' = spent /\ Told(report, m) /\ pc' \notin {"evaluate", "create_intent"}
    BY <1>8 DEF RecordSubmission, RecordReport, RecordCancellation, Reconcile, At, Goto, Return,
                Durable, Typing, Situation, ReportSteps, Evident, Telling, venueVars
  <2> QED BY <2>1
<1>9. ASSUME Reconcile, ~Recognised(mem, report) PROVE Neutral
  BY <1>9 DEF Reconcile, FailSafe, Return, venueVars, Neutral
<1>10. CASE HandleProposal
  BY <1>10, <1>1, <1>2, <1>4, <1>7, <1>8 DEF HandleProposal
<1>11. CASE HandleCancel
  BY <1>11, <1>2, <1>6, <1>8 DEF HandleCancel
<1>12. CASE ReconcileReport
  BY <1>12, <1>5, <1>7, <1>8, <1>9 DEF ReconcileReport
<1> QED BY <1>2, <1>3, <1>5, <1>10, <1>11, <1>12 DEF Next

\* A report changes neither an intent nor an estimate.
LEMMA RecordFrame ==
  ASSUME Typing, NEW r \in Reports, Record(r)
  PROVE  ledger'.intent = ledger.intent /\ ledger'.cost = ledger.cost
BY DEF Record, HydratedReport, Typing, TypeOK, KernelStates

LEMMA NextEstimated ==
  ASSUME Typing, Durable, Submission, NEW m \in Nat, EstimatesCover(m), Evident(m), Estimated(m),
         [Next]_vars
  PROVE  Estimated(m)'
<1>1. ASSUME NEW p \in Proposals, Receive(p) PROVE Estimated(m)'
  <2>1. /\ ledger' = [ledger EXCEPT !.cost[p.key] = p.cost] /\ mem = ledger
        /\ \/ pc' = "idle"
           \/ pc' = "evaluate" /\ proposal' = p /\ Replayable(ledger.book)
    BY <1>1 DEF Receive, HydratedProposal, Raise, Return, Goto, At, Durable, DerivationRaises
  <2>2. p.key \in Keys /\ ledger \in KernelStates
    BY KernelAssumption DEF ProposalType, Typing, TypeOK
  <2>3. /\ ledger'.book = ledger.book /\ ledger'.intent = ledger.intent
        /\ \A k \in Keys : ledger'.cost[k] = IF k = p.key THEN p.cost ELSE ledger.cost[k]
    BY <2>1, <2>2 DEF KernelStates
  <2>4. pc' = "evaluate" => Replayable(ledger'.book)
    BY <2>1, <2>3
  <2> QED BY <2>1, <2>2, <2>3, <2>4 DEF Estimated
<1>2. ASSUME Decide PROVE Estimated(m)'
  <2>1. /\ ledger'.book = ledger.book /\ ledger'.intent = ledger.intent
        /\ ledger'.cost = ledger.cost
        /\ pc = "evaluate" /\ pc' # "evaluate" /\ mem = ledger
    BY <1>2 DEF Decide, AfterApproval, HydratedDecision, Goto, Return, At, Durable, Typing, TypeOK,
                KernelStates
  <2>2. ASSUME pc' = "create_intent"
        PROVE  proposal' = proposal /\ ledger.intent[proposal.key] = None
    <3>1. /\ proposal' = proposal
          /\ \E fresh \in BOOLEAN :
               Evaluate(proposal, DerivedIntent(mem, proposal), AvailableCash(mem),
                        mem.book.pos[proposal.symbol], mode, kill, mem.known, fresh) = "APPROVED"
      BY <1>2, <2>2 DEF Decide, Return
    <3>2. proposal.key \notin ledger.known
      BY <2>1, <3>1, Approval DEF DuplicateKey
    <3>3. proposal.key \in Keys
      BY <2>1, KernelAssumption DEF Typing, Situation, HandlerSteps, Steps, ProposalType
    <3> QED BY <3>1, <3>2, <3>3 DEF Submission
  <2> QED BY <2>1, <2>2 DEF Estimated
<1>3. ASSUME CreateIntent PROVE Estimated(m)'
  <2> DEFINE i == DerivedIntent(mem, proposal)
  <2>1. mem = ledger /\ proposal \in Proposals /\ mem \in KernelStates /\ pc = "create_intent"
    BY <1>3 DEF CreateIntent, At, Durable, Typing, TypeOK, Situation, HandlerSteps, Steps
  <2>2. i \in Intents /\ i.key = proposal.key
    <3>1. DerivedQuantity(mem, proposal) # 0 /\ i # None
      BY <2>1 DEF Typing, Situation
    <3> QED BY <2>1, <3>1, DerivedIntentType, KernelAssumption
  <2>3. /\ ledger'.intent = [ledger.intent EXCEPT ![proposal.key] = i]
        /\ ledger'.cost = ledger.cost /\ pc' = "validate"
    BY <1>3, <2>1, <2>2 DEF CreateIntent, HydratedTransition, HydratedIntent, Goto, KernelStates
  <2>4. ASSUME i.side = "BUY", NEW q \in Proposals, q.key = proposal.key
        PROVE  Covers(i, q.cost, m)
    <3>1. /\ proposal.action \in Opening /\ i.qty = proposal.qty /\ i.price = proposal.price
          /\ proposal.qty # None
      BY <2>2, <2>4, NoneAssumption DEF DerivedIntent, DerivedQuantity, Opening
    <3> QED BY <2>1, <2>4, <3>1 DEF EstimatesCover, Covers
  <2>5. i.side = "BUY" => Covers(i, ledger.cost[proposal.key], m)
    BY <2>1, <2>4 DEF Estimated
  <2>6. proposal.key \in Keys
    BY <2>1, KernelAssumption DEF ProposalType
  <2> HIDE DEF i
  <2>7. ASSUME NEW k \in Keys, Purchase(ledger'.intent[k])
        PROVE  /\ Covers(ledger'.intent[k], ledger'.cost[k], m)
               /\ \A p \in Proposals : p.key = k => Covers(ledger'.intent[k], p.cost, m)
    <3>1. CASE k = proposal.key
      <4>1. ledger'.intent[k] = i
        BY <2>1, <2>3, <3>1 DEF KernelStates
      <4> QED BY <2>3, <2>4, <2>5, <2>7, <3>1, <4>1 DEF Purchase
    <3>2. CASE k # proposal.key
      <4>1. ledger'.intent[k] = ledger.intent[k]
        BY <2>1, <2>3, <3>2 DEF KernelStates
      <4> QED BY <2>3, <2>7, <4>1 DEF Estimated
    <3> QED BY <3>1, <3>2
  <2> QED BY <2>3, <2>7 DEF Estimated
<1>4. ASSUME VenueActs \/ SendCancel PROVE Estimated(m)'
  <2>1. ledger' = ledger
    BY <1>4 DEF VenueActs, SendCancel, kernelVars
  <2>2. UNCHANGED <<pc, proposal>> \/ pc' = "cancel_reply"
    BY <1>4 DEF VenueActs, SendCancel, kernelVars, processVars, Goto
  <2> QED BY <2>1, <2>2 DEF Estimated
<1>5. ASSUME NEW r \in Reports, Record(r), pc' \notin {"evaluate", "create_intent"}
      PROVE  Estimated(m)'
  <2>1. ledger'.intent = ledger.intent /\ ledger'.cost = ledger.cost
    BY <1>5, RecordFrame
  <2> QED BY <1>5, <2>1 DEF Estimated
<1>6. ASSUME Neutral PROVE Estimated(m)'
  BY <1>6 DEF Neutral, Estimated
<1> QED BY <1>1, <1>2, <1>3, <1>4, <1>5, <1>6, StepKinds

-----------------------------------------------------------------------------
(* What is reserved.                                                       *)

\* What the kernel holds back for order k.
Held(s, k) == IF k \in OpenBuys(s) THEN Reservation(s, k) ELSE 0

ReservePartial(s, g, t) ==
  IF t = {} THEN 0 ELSE Reservation(s, CHOOSE x \in t : TRUE) + g[t \ {CHOOSE x \in t : TRUE}]

ReserveIterates(s, g, R) == g = [t \in SUBSET R |-> ReservePartial(s, g, t)]

LEMMA ReservedIs ==
  ASSUME NEW s
  PROVE  ReservedCash(s) = (CHOOSE g : ReserveIterates(s, g, OpenBuys(s)))[OpenBuys(s)]
BY Zenon DEF ReservedCash, MapThenSumSet, MapThenFoldSet, ReservePartial, ReserveIterates

\* _reserved_cash is the sum of what is held back for each order.
LEMMA ReservedSum ==
  ASSUME NEW s \in KernelStates, IsFiniteSet(Keys)
  PROVE  ReservedCash(s) = Total([k \in Keys |-> Held(s, k)], Keys)
<1> DEFINE R == OpenBuys(s)
           f == [k \in Keys |-> Held(s, k)]
<1>1. R \in SUBSET Keys
  BY DEF OpenBuys
<1>2. \A k \in R : f[k] = Reservation(s, k)
  BY <1>1 DEF Held
<1>3. ASSUME NEW g, NEW t \in SUBSET R PROVE ReservePartial(s, g, t) = Partial(f, g, t)
  <2> HIDE DEF R, f
  <2>1. t # {} => (CHOOSE x \in t : TRUE) \in R
    OBVIOUS
  <2> QED BY <1>2, <2>1 DEF Partial, ReservePartial
<1> HIDE DEF R, f
<1>4. \A g : ReserveIterates(s, g, R) <=> Iterates(f, g, R)
  BY <1>3 DEF ReserveIterates, Iterates
<1>5. PICK h : Iterates(f, h, R)
  <2>1. IsFiniteSet(R)
    BY <1>1, FS_Subset
  <2> QED BY <2>1, PartialExists
<1> DEFINE g == CHOOSE g : ReserveIterates(s, g, R)
           e == CHOOSE e : Iterates(f, e, R)
<1>6. Iterates(f, g, R) /\ Iterates(f, e, R)
  BY <1>4, <1>5
<1>7. ReservedCash(s) = g[R] /\ Total(f, R) = e[R]
  BY ReservedIs, TotalIs DEF R
<1> HIDE DEF g, e
<1>8. g[R] = e[R]
  <2>1. IsFiniteSet(R)
    BY <1>1, FS_Subset
  <2> QED BY <1>6, <2>1, PartialUnique
<1>9. Total(f, R) = Total(f, Keys)
  <2>1. \A k \in Keys : f[k] \in Int
    <3>1. ASSUME NEW k \in Keys PROVE Held(s, k) \in Int
      BY <3>1 DEF Held, OpenBuys, Reservation, Filled, KernelStates, Intents, Books
    <3> QED BY <3>1 DEF f
  <2>2. \A k \in Keys \ R : f[k] = 0
    BY DEF f, R, Held
  <2> QED BY <1>1, <2>1, <2>2, TotalSubset
<1> QED BY <1>7, <1>8, <1>9 DEF f

-----------------------------------------------------------------------------
(* Capital.                                                                *)

\* What the book says intent i has cost, and the most it may yet cost; a sale brings money.
BookedCost(i, g) == IF i = None THEN 0 ELSE IF i.side = "BUY" THEN g ELSE -g

Worst(i, o, g, m) ==
  IF ~Purchase(i) THEN BookedCost(i, g) ELSE IF o = None THEN i.qty * m ELSE Exposed(o, m)

Costs == [k \in Keys |-> BookedCost(ledger.intent[k], ledger.book.gross[k])]
Payments == [k \in Keys |-> Paid(order[k])]
Worsts(m) == [k \in Keys |-> Worst(ledger.intent[k], order[k], ledger.book.gross[k], m)]

\* Cash is what was given less what is booked, and the capital is enough for the worst of all
\* orders and of the one that is approved and not yet recorded.
Capital(m) ==
  /\ ledger.book.cash = StartingCash - Total(Costs, Keys)
  /\ spent = Total(Payments, Keys)
  /\ Total(Worsts(m), Keys) <= StartingCash
  /\ pc = "create_intent" /\ proposal.action \in Opening =>
       Total(Worsts(m), Keys) + proposal.qty * m <= StartingCash

LEMMA TermTypes ==
  ASSUME NEW i \in Intents \cup {None}, NEW o \in VenueOrders \cup {None}, NEW g \in Nat,
         NEW m \in Nat
  PROVE  BookedCost(i, g) \in Int /\ Paid(o) \in Int /\ Worst(i, o, g, m) \in Int
<1>1. i # None => i.qty \in Nat
  BY DEF Intents
<1>2. o # None => o.gross \in Nat /\ o.size \in Nat /\ o.filled \in Nat
  BY DEF VenueOrders
<1>3. BookedCost(i, g) \in Int
  BY DEF BookedCost
<1>4. Paid(o) \in Int
  BY <1>2 DEF Paid
<1>5. Worst(i, o, g, m) \in Int
  <2>1. o # None => Exposed(o, m) \in Int
    BY <1>2 DEF Exposed
  <2>2. Purchase(i) => i.qty * m \in Int
    BY <1>1 DEF Purchase
  <2> QED BY <1>3, <2>1, <2>2 DEF Worst
<1> QED BY <1>3, <1>4, <1>5

LEMMA CapitalTypes ==
  ASSUME Typing, NEW m \in Nat, NEW k \in Keys
  PROVE  Costs[k] \in Int /\ Payments[k] \in Int /\ Worsts(m)[k] \in Int
BY TermTypes DEF Typing, TypeOK, KernelStates, Books, Costs, Payments, Worsts

LEMMA NextCapitalTypes ==
  ASSUME Typing', NEW m \in Nat, NEW k \in Keys
  PROVE  Costs'[k] \in Int /\ Payments'[k] \in Int /\ Worsts(m)'[k] \in Int
BY TermTypes DEF Typing, TypeOK, KernelStates, Books, Costs, Payments, Worsts

\* An order at the exchange is the recorded one.
LEMMA RecordedIntent ==
  ASSUME Typing, Submission, NEW k \in Keys, order[k] # None
  PROVE  /\ ledger.intent[k] # None /\ order[k].side = ledger.intent[k].side
         /\ order[k].size = ledger.intent[k].qty
BY DEF Submission, AsRecorded

\* The estimate of n units covers any part of them.
LEMMA PartCovered ==
  ASSUME NEW n \in Nat, NEW j \in Nat, j <= n, NEW price \in Nat, NEW c \in Nat, NEW m \in Nat,
         n * m <= n * price + c
  PROVE  j * m <= j * price + c
<1>1. CASE m <= price
  <2>1. j * price = j * m + j * (price - m) /\ j * (price - m) \in Nat
    BY <1>1
  <2>2. j * m \in Nat
    OBVIOUS
  <2> DEFINE x == j * m
             y == j * price
             z == j * (price - m)
  <2>3. y = x + z /\ z \in Nat /\ x \in Nat
    BY <2>1, <2>2
  <2> HIDE DEF x, y, z
  <2>4. x <= y + c
    BY <2>3
  <2> QED BY <2>4 DEF x, y
<1>2. CASE price < m
  <2>1. /\ j * m = j * price + j * (m - price)
        /\ n * m = n * price + n * (m - price)
        /\ n * (m - price) = j * (m - price) + (n - j) * (m - price)
        /\ j * m \in Nat /\ j * price \in Nat /\ n * m \in Nat /\ n * price \in Nat
        /\ j * (m - price) \in Nat /\ n * (m - price) \in Nat /\ (n - j) * (m - price) \in Nat
    BY <1>2
  <2> DEFINE a == j * m
             b == j * price
             d == j * (m - price)
             A == n * m
             B == n * price
             D == n * (m - price)
             e == (n - j) * (m - price)
  <2>2. /\ a = b + d /\ A = B + D /\ D = d + e /\ A <= B + c
        /\ a \in Nat /\ b \in Nat /\ A \in Nat /\ B \in Nat /\ d \in Nat /\ D \in Nat /\ e \in Nat
    BY <2>1
  <2> HIDE DEF a, b, d, A, B, D, e
  <2>3. a <= b + c
    BY <2>2
  <2> QED BY <2>3 DEF a, b
<1> QED BY <1>1, <1>2

\* What may yet be paid for an order at the exchange, seen from the book.
LEMMA ExposedBook ==
  ASSUME NEW o \in VenueOrders, NEW m \in Nat, NEW q \in Nat, NEW g \in Nat,
         Behind(q, g, o.filled, o.gross, m), o.filled <= o.size
  PROVE  /\ Exposed(o, m) <= g + (o.size - q) * m
         /\ o.gross <= Exposed(o, m) /\ g <= Exposed(o, m)
         /\ o.filled = q => g = o.gross
<1>1. o.size \in Nat /\ o.filled \in Nat /\ o.gross \in Nat /\ q <= o.filled /\ g <= o.gross
  BY DEF VenueOrders, Behind
<1> DEFINE a == (o.size - q) * m
           b == (o.filled - q) * m
           c == (o.size - o.filled) * m
<1>2. a = b + c /\ b \in Nat /\ c \in Nat /\ o.gross - g <= b
  BY <1>1 DEF Behind
<1>3. o.filled = q => b = 0
  BY <1>1
<1>4. Exposed(o, m) \in {o.gross, o.gross + c}
  BY DEF Exposed
<1> HIDE DEF a, b, c
<1>5. /\ Exposed(o, m) <= g + a
      /\ o.gross <= Exposed(o, m) /\ g <= Exposed(o, m)
      /\ o.filled = q => g = o.gross
  BY <1>1, <1>2, <1>3, <1>4
<1> QED BY <1>5 DEF a

\* What an order may yet cost is booked or held back.
LEMMA WorstHeld ==
  ASSUME Typing, Submission, Closure, Unsuspended, NEW m \in Nat, Evident(m), Estimated(m),
         ~ledger.book.broken, NEW k \in Keys
  PROVE  /\ Held(ledger, k) \in Int
         /\ Worsts(m)[k] <= Costs[k] + Held(ledger, k)
<1> DEFINE i == ledger.intent[k]
           o == order[k]
           q == ledger.book.qty[k]
           g == ledger.book.gross[k]
           c == ledger.cost[k]
<1>1. q \in Nat /\ g \in Nat /\ c \in Nat /\ (i # None => i.qty \in Nat \ {0} /\ i.price \in Nat)
  BY DEF Typing, TypeOK, KernelStates, Books, Intents
<1>2. Costs[k] = BookedCost(i, g) /\ Worsts(m)[k] = Worst(i, o, g, m)
  BY DEF Costs, Worsts
<1>3. k \in OpenBuys(ledger) <=>
        Purchase(i) /\ ledger.status[k] \notin Terminal /\ i.qty > q
  BY DEF OpenBuys, Purchase, Filled
<1>4. k \in OpenBuys(ledger) => Held(ledger, k) = (i.qty - q) * i.price + c
  BY DEF Held, Reservation, Filled
<1>5. k \notin OpenBuys(ledger) => Held(ledger, k) = 0
  BY DEF Held
<1>6. Figures(m) /\ Recorded
  BY DEF Evident
<1>7. BookedCost(i, g) \in Int /\ Worst(i, o, g, m) \in Int
  BY <1>2, CapitalTypes
<1>8. ASSUME Purchase(i) PROVE Covers(i, c, m)
  BY <1>8 DEF Estimated
<1>9. ASSUME o # None
      PROVE  /\ i # None /\ o.side = i.side /\ o.size = i.qty /\ o \in VenueOrders
             /\ o.filled \in Nat /\ o.filled <= o.size
             /\ Behind(q, g, o.filled, o.gross, m)
             /\ o.st \in {"new", "canceled", "rejected"} => o.filled = 0
  BY <1>6, <1>9, RecordedIntent DEF Figures, Typing, TypeOK, VenueOrders
<1>10. o = None => q = 0 /\ g = 0
  BY <1>6 DEF Figures
<1>11. ledger.status[k] \in Terminal => ClosedAs(k, ledger.status[k])
  BY DEF Closure
<1>12. ledger.status[k] = "FILLED" => q = o.filled
  BY <1>6 DEF Recorded, Whole
<1> HIDE DEF i, q, g, c
<1>13. CASE ~Purchase(i)
  BY <1>2, <1>3, <1>5, <1>7, <1>13 DEF Worst
<1>14. ASSUME Purchase(i), o # None PROVE Worst(i, o, g, m) <= g + (i.qty - q) * m
  BY <1>1, <1>9, <1>14, ExposedBook DEF Worst, Purchase
<1>15. ASSUME Purchase(i), o = None PROVE Worst(i, o, g, m) = g + (i.qty - q) * m
  BY <1>1, <1>10, <1>15 DEF Worst, Purchase
<1>16. CASE k \in OpenBuys(ledger)
  <2>1. Purchase(i) /\ i # None /\ i.side = "BUY" /\ i.qty > q
    BY <1>3, <1>16 DEF Purchase
  <2>2. i.qty * m <= i.qty * i.price + c
    BY <1>8, <2>1 DEF Covers
  <2> DEFINE j == i.qty - q
  <2>3. j \in Nat /\ j <= i.qty
    BY <1>1, <2>1
  <2>4. j * m <= j * i.price + c
    <3> HIDE DEF j
    <3> QED BY <1>1, <2>1, <2>2, <2>3, PartCovered
  <2>5. Worst(i, o, g, m) <= g + j * m
    <3>1. (i.qty - q) * m \in Int
      BY <1>1, <2>3
    <3> QED BY <1>1, <1>14, <1>15, <2>1, <3>1
  <2>6. Held(ledger, k) = j * i.price + c
    BY <1>4, <1>16
  <2>7. j * m \in Nat /\ j * i.price \in Nat
    BY <1>1, <2>1, <2>3
  <2>8. BookedCost(i, g) = g
    BY <2>1 DEF BookedCost
  <2> DEFINE x == j * m
             y == j * i.price
  <2>9. /\ x <= y + c /\ Worst(i, o, g, m) <= g + x /\ Held(ledger, k) = y + c
        /\ x \in Nat /\ y \in Nat
    BY <2>4, <2>5, <2>6, <2>7
  <2> HIDE DEF x, y, j
  <2> QED BY <1>1, <1>2, <1>7, <2>8, <2>9
<1>17. CASE Purchase(i) /\ k \notin OpenBuys(ledger)
  <2>1. Held(ledger, k) = 0 /\ BookedCost(i, g) = g /\ i # None /\ i.side = "BUY"
    BY <1>5, <1>17 DEF BookedCost, Purchase
  <2>2. Worst(i, o, g, m) <= g
    <3>1. CASE ledger.status[k] \in Terminal
      <4>1. o # None /\ MapStatus(o.st) = ledger.status[k] /\ o.st \in ClosedStates
        BY <1>11, <3>1, ClosedAsMapped
      <4>2. Worst(i, o, g, m) = o.gross
        BY <1>17, <4>1 DEF Worst, Exposed, ClosedStates, LiveStates, DetourStates
      <4>3. q = o.filled
        <5>1. CASE ledger.status[k] = "FILLED"
          BY <1>12, <5>1
        <5>2. CASE ledger.status[k] # "FILLED"
          <6>1. o.st \in {"canceled", "rejected"}
            BY <4>1, <5>2 DEF MapStatus, ClosedStates
          <6> QED BY <1>1, <1>9, <4>1, <6>1 DEF Behind
        <5> QED BY <5>1, <5>2
      <4> QED BY <1>1, <1>9, <4>1, <4>2, <4>3, ExposedBook
    <3>2. CASE ledger.status[k] \notin Terminal
      <4>1. i.qty <= q
        BY <1>1, <1>3, <1>17, <2>1, <3>2
      <4>2. o # None
        BY <1>1, <1>10, <2>1, <4>1
      <4>3. i.qty = q
        BY <1>1, <1>9, <2>1, <4>1, <4>2 DEF Behind
      <4>4. (i.qty - q) * m = 0
        BY <1>1, <2>1, <4>3
      <4> QED BY <1>1, <1>14, <1>17, <4>2, <4>4
    <3> QED BY <3>1, <3>2
  <2> QED BY <1>1, <1>2, <1>7, <2>1, <2>2
<1> QED BY <1>13, <1>16, <1>17, <1>1, <1>2, <1>3, <1>5, <1>7

\* The orders of a kernel whose replay returns may cost what is booked and what is reserved.
LEMMA WorstReserved ==
  ASSUME IsFiniteSet(Keys), Typing, Submission, Closure, Unsuspended, NEW m \in Nat, Evident(m),
         Estimated(m), ~ledger.book.broken
  PROVE  /\ Total(Worsts(m), Keys) <= Total(Costs, Keys) + ReservedCash(ledger)
         /\ Total(Worsts(m), Keys) \in Int /\ Total(Costs, Keys) \in Int
         /\ ReservedCash(ledger) \in Int
<1> DEFINE held == [k \in Keys |-> Held(ledger, k)]
           both == [k \in Keys |-> Costs[k] + held[k]]
<1>1. \A k \in Keys : /\ held[k] \in Int /\ both[k] = Costs[k] + held[k]
                      /\ Worsts(m)[k] <= both[k] /\ both[k] \in Int
                      /\ Costs[k] \in Int /\ Worsts(m)[k] \in Int
  BY WorstHeld, CapitalTypes
<1>2. ReservedCash(ledger) = Total(held, Keys)
  BY ReservedSum DEF Typing, TypeOK
<1> HIDE DEF held, both
<1>3. Total(both, Keys) = Total(Costs, Keys) + Total(held, Keys)
  BY <1>1, TotalPlus
<1>4. Total(Worsts(m), Keys) <= Total(both, Keys)
  BY <1>1, TotalMonotone
<1>5. Total(Worsts(m), Keys) \in Int /\ Total(Costs, Keys) \in Int /\ Total(held, Keys) \in Int
  BY <1>1, TotalType
<1> QED BY <1>2, <1>3, <1>4, <1>5

\* An approved purchase leaves the capital enough for it.
LEMMA DecideCapital ==
  ASSUME IsFiniteSet(Keys), Typing, Durable, Submission, Closure, Unsuspended, NEW m \in Nat,
         EstimatesCover(m), Evident(m), Estimated(m), Capital(m), Decide
  PROVE  Capital(m)'
<1>1. /\ ledger'.book = ledger.book /\ ledger'.intent = ledger.intent
      /\ order' = order /\ spent' = spent /\ pc = "evaluate" /\ mem = ledger
  BY DEF Decide, HydratedDecision, At, Durable, Typing, TypeOK, KernelStates, venueVars
<1>2. /\ ledger'.book.cash = StartingCash - Total(Costs, Keys)'
      /\ spent' = Total(Payments, Keys)' /\ Total(Worsts(m), Keys)' <= StartingCash
      /\ Total(Worsts(m), Keys)' = Total(Worsts(m), Keys)
  BY <1>1 DEF Capital, Costs, Payments, Worsts
<1>3. ASSUME pc' = "create_intent", proposal'.action \in Opening
      PROVE  proposal' = proposal /\ Total(Worsts(m), Keys) + proposal.qty * m <= StartingCash
  <2> DEFINE i == DerivedIntent(mem, proposal)
  <2>1. PICK fresh \in BOOLEAN :
          /\ Evaluate(proposal, i, AvailableCash(mem),
                      mem.book.pos[proposal.symbol], mode, kill, mem.known, fresh) = "APPROVED"
          /\ proposal' = proposal
    BY <1>3 DEF Decide, Return
  <2>2. proposal \in Proposals /\ mem \in KernelStates /\ proposal \in ProposalType
    BY <1>1, KernelAssumption DEF Typing, TypeOK, Situation, HandlerSteps, Steps
  <2>3. proposal.action \notin {"HOLD", "CANCEL"}
    BY <1>3, <2>1 DEF Opening
  <2>4. i # None /\ ~ExceedsCash(proposal, i, AvailableCash(mem))
    BY <2>1, <2>3 DEF Evaluate
  <2>5. i \in Intents /\ i.side = "BUY"
    <3>1. DerivedQuantity(mem, proposal) # 0
      BY <1>1 DEF Typing, Situation
    <3> QED BY <1>3, <2>1, <2>2, <2>4, <3>1, DerivedIntentType
  <2>6. /\ i.qty = proposal.qty /\ i.price = proposal.price /\ proposal.qty # None
        /\ proposal.qty \in Nat \ {0} /\ proposal.price \in Nat \ {0} /\ proposal.cost \in Nat
    BY <1>3, <2>1, <2>2, <2>3, <2>4, <2>5
       DEF DerivedIntent, DerivedQuantity, Opening, Intents, ProposalType
  <2>7. proposal.qty * proposal.price + proposal.cost <= AvailableCash(mem)
    <3>1. proposal.qty * proposal.price \in Nat
      BY <2>6
    <3>2. AvailableCash(mem) \in Int
      <4>1. ledger.book.cash \in Int
        BY DEF Typing, TypeOK, KernelStates, Books
      <4>2. ReservedCash(ledger) \in Int
        BY <1>1, WorstReserved DEF Estimated, Replayable
      <4> QED BY <1>1, <4>1, <4>2 DEF AvailableCash
    <3> QED BY <2>4, <2>5, <2>6, <3>1, <3>2 DEF ExceedsCash, Notional
  <2>8. /\ Total(Worsts(m), Keys) <= Total(Costs, Keys) + ReservedCash(ledger)
        /\ Total(Worsts(m), Keys) \in Int /\ Total(Costs, Keys) \in Int
        /\ ReservedCash(ledger) \in Int
    BY <1>1, WorstReserved DEF Estimated, Replayable
  <2>9. proposal.qty * m <= proposal.qty * proposal.price + proposal.cost
    BY <1>3, <2>1, <2>2, <2>6 DEF EstimatesCover
  <2>10. 0 < proposal.qty * proposal.price
    BY <2>6
  <2> DEFINE x == proposal.qty * m
             y == proposal.qty * proposal.price
             c == proposal.cost
             W == Total(Worsts(m), Keys)
             T == Total(Costs, Keys)
             R == ReservedCash(ledger)
             cash == ledger.book.cash
  <2>11. /\ x <= y + c /\ 0 < y /\ W <= T + R /\ cash = StartingCash - T
         /\ y + c <= (IF cash - R < 0 THEN 0 ELSE cash - R)
         /\ x \in Int /\ y \in Int /\ c \in Nat /\ W \in Int /\ T \in Int /\ R \in Int
         /\ StartingCash \in Nat
    BY <1>1, <2>6, <2>7, <2>8, <2>9, <2>10, StartingCashAssumption DEF AvailableCash, Capital
  <2> HIDE DEF x, y, c, W, T, R, cash
  <2>12. W + x <= StartingCash
    BY <2>11
  <2> QED BY <2>1, <2>12 DEF W, x
<1> QED BY <1>2, <1>3 DEF Capital

\* The intent takes the place that was kept for it.
LEMMA CreateIntentCapital ==
  ASSUME IsFiniteSet(Keys), Typing, Typing', Durable, Submission, NEW m \in Nat, Evident(m),
         Estimated(m), Capital(m), CreateIntent
  PROVE  Capital(m)'
<1> DEFINE i == DerivedIntent(mem, proposal)
           k == proposal.key
<1>1. /\ mem = ledger /\ proposal \in Proposals /\ proposal \in ProposalType
      /\ mem \in KernelStates /\ pc = "create_intent" /\ pc' = "validate" /\ k \in Keys
      /\ order' = order /\ spent' = spent
  BY KernelAssumption
     DEF CreateIntent, At, Goto, Durable, Typing, TypeOK, Situation, HandlerSteps, Steps, venueVars,
         ProposalType
<1>2. /\ i \in Intents /\ i.key = k /\ i # None
      /\ i.side = IF proposal.action \in Opening THEN "BUY" ELSE "SELL"
  <2>1. DerivedQuantity(mem, proposal) # 0 /\ i # None
    BY <1>1 DEF Typing, Situation
  <2> QED BY <1>1, <2>1, DerivedIntentType
<1>3. ledger'.intent = [ledger.intent EXCEPT ![k] = i] /\ ledger'.book = ledger.book
  BY <1>1, <1>2 DEF CreateIntent, HydratedTransition, HydratedIntent, KernelStates
<1>4. /\ ledger.intent[k] = None /\ order[k] = None /\ ledger.book.gross[k] = 0
  <2>1. ledger.intent[k] = None
    BY <1>1 DEF Estimated
  <2>2. order[k] = None
    BY <1>1, <2>1, RecordedIntent
  <2> QED BY <1>1, <2>1, <2>2 DEF Evident, Figures
<1>5. proposal.action \in Opening => i.qty = proposal.qty
  BY <1>2 DEF DerivedIntent, DerivedQuantity, Opening
<1>6. i.qty \in Nat
  BY <1>2 DEF Intents
<1> HIDE DEF i, k
<1>7. /\ ledger'.intent[k] = i
      /\ \A j \in Keys \ {k} : ledger'.intent[j] = ledger.intent[j]
  BY <1>1, <1>3 DEF KernelStates
<1>8. \A j \in Keys : Costs'[j] = Costs[j]
  BY <1>3, <1>4, <1>7 DEF Costs, BookedCost
<1>9. Costs' = Costs /\ Payments' = Payments
  BY <1>1, <1>8 DEF Costs, Payments
<1>10. \A j \in Keys \ {k} : Worsts(m)'[j] = Worsts(m)[j]
  BY <1>1, <1>3, <1>7 DEF Worsts
<1>11. /\ Worsts(m)[k] = 0
       /\ Worsts(m)'[k] = IF proposal.action \in Opening THEN i.qty * m ELSE 0
  BY <1>1, <1>2, <1>3, <1>4, <1>7 DEF Worsts, Worst, Purchase, BookedCost
<1>12. Total(Worsts(m), Keys)' <= StartingCash
  <2> DEFINE f == Worsts(m)
             h == Worsts(m)'
  <2>1. /\ \A j \in Keys : f[j] \in Int
        /\ \A j \in Keys \ {k} : h[j] = f[j]
        /\ f[k] = 0 /\ h[k] = IF proposal.action \in Opening THEN i.qty * m ELSE 0
    BY <1>10, <1>11, CapitalTypes
  <2>2. i.qty * m \in Int
    BY <1>6
  <2>3. Total(f, Keys) <= StartingCash
    BY DEF Capital
  <2>4. proposal.action \in Opening => Total(f, Keys) + i.qty * m <= StartingCash
    BY <1>1, <1>5 DEF Capital
  <2> HIDE DEF f, h
  <2>5. \A j \in Keys : h[j] \in Int
    BY <1>1, <2>1, <2>2
  <2>6. Total(f, Keys) \in Int /\ Total(h, Keys) = Total(f, Keys) + (h[k] - f[k])
    BY <1>1, <2>1, <2>5, TotalChange
  <2> DEFINE x == i.qty * m
  <2>7. /\ Total(f, Keys) \in Int /\ x \in Int
        /\ Total(h, Keys) = Total(f, Keys) + (IF proposal.action \in Opening THEN x ELSE 0)
        /\ Total(f, Keys) <= StartingCash
        /\ proposal.action \in Opening => Total(f, Keys) + x <= StartingCash
    BY <2>1, <2>2, <2>3, <2>4, <2>6
  <2> HIDE DEF x
  <2>8. Total(h, Keys) <= StartingCash
    BY <2>7
  <2> QED BY <2>8 DEF h
<1> QED BY <1>1, <1>3, <1>9, <1>12 DEF Capital

\* The exchange never makes an order dearer than the worst of it.
LEMMA VenueCapital ==
  ASSUME IsFiniteSet(Keys), Typing, Typing', Submission, ~CancelsAfterFills,
         NEW m \in Nat, Bounded(m), Evident(m), Capital(m), VenueActs \/ SendCancel
  PROVE  Capital(m)'
<1>1. ledger' = ledger /\ (UNCHANGED <<pc, proposal>> \/ pc' = "cancel_reply")
  BY DEF VenueActs, SendCancel, kernelVars, processVars, Goto
<1>2. PICK k \in Keys :
        /\ \A j \in Keys \ {k} : order'[j] = order[j]
        /\ \/ order'[k] = order[k] /\ spent' = spent
           \/ /\ order[k] = None /\ wire[k] # None /\ spent' = spent
              /\ order'[k] = [st |-> "new", symbol |-> wire[k].symbol, side |-> wire[k].side,
                              size |-> wire[k].qty, filled |-> 0, gross |-> 0, resumed |-> FALSE]
           \/ /\ order[k] # None /\ order'[k] # None /\ Moved(order[k], order'[k], m)
              /\ spent' = spent + (Paid(order'[k]) - Paid(order[k]))
  BY OrderMoves DEF Evident
<1>3. Costs' = Costs
  BY <1>1 DEF Costs
<1>4. spent' = Total(Payments, Keys)'
  <2> DEFINE f == Payments
             h == Payments'
  <2>1. ASSUME NEW j \in Keys PROVE f[j] \in Int /\ h[j] \in Int
    BY CapitalTypes, NextCapitalTypes
  <2>2. \A j \in Keys \ {k} : h[j] = f[j]
    BY <1>2 DEF Payments, Paid
  <2>3. f[k] = Paid(order[k]) /\ h[k] = Paid(order'[k])
    BY DEF Payments, Paid
  <2>4. spent' = spent + (h[k] - f[k])
    <3>1. spent \in Int
      BY DEF Typing, TypeOK
    <3>2. CASE order'[k] = order[k] /\ spent' = spent
      BY <2>1, <2>3, <3>1, <3>2
    <3>3. CASE order[k] = None /\ spent' = spent /\ order'[k] # None /\ order'[k].gross = 0
      BY <2>3, <3>1, <3>3 DEF Paid
    <3>4. order'[k] = [st |-> "new", symbol |-> wire[k].symbol, side |-> wire[k].side,
                       size |-> wire[k].qty, filled |-> 0, gross |-> 0, resumed |-> FALSE]
            => order'[k].gross = 0
      OBVIOUS
    <3>5. ASSUME order[k] = None, spent' = spent, order'[k] = None PROVE spent' = spent + (h[k] - f[k])
      BY <2>3, <3>1, <3>5 DEF Paid
    <3> QED BY <1>2, <2>3, <3>2, <3>3, <3>4, <3>5
  <2>5. spent = Total(f, Keys)
    BY DEF Capital
  <2> HIDE DEF f, h
  <2>6. Total(h, Keys) = Total(f, Keys) + (h[k] - f[k])
    BY <2>1, <2>2, TotalChange
  <2> QED BY <2>4, <2>5, <2>6 DEF h
<1>5. ASSUME NEW j \in Keys
      PROVE  Worsts(m)[j] \in Int /\ Worsts(m)'[j] \in Int /\ Worsts(m)'[j] <= Worsts(m)[j]
  <2> DEFINE i == ledger.intent[j]
             g == ledger.book.gross[j]
  <2>1. Worsts(m)[j] \in Int /\ Worsts(m)'[j] \in Int
    BY CapitalTypes, NextCapitalTypes
  <2>2. Worsts(m)[j] = Worst(i, order[j], g, m) /\ Worsts(m)'[j] = Worst(i, order'[j], g, m)
    BY <1>1 DEF Worsts
  <2>3. CASE ~Purchase(i) \/ order'[j] = order[j]
    BY <2>1, <2>2, <2>3 DEF Worst
  <2>4. CASE /\ Purchase(i) /\ j = k /\ order[j] = None /\ wire[j] # None
             /\ order'[j] = [st |-> "new", symbol |-> wire[j].symbol, side |-> wire[j].side,
                             size |-> wire[j].qty, filled |-> 0, gross |-> 0, resumed |-> FALSE]
    <3>1. wire[j] = i /\ i.qty \in Nat
      BY <2>4 DEF Submission, AsRecorded, Typing, TypeOK, Intents
    <3>2. Worst(i, order[j], g, m) = i.qty * m
      BY <2>4 DEF Worst
    <3>3. order'[j] # None => Worst(i, order'[j], g, m) = i.qty * m
      <4>1. order'[j].st = "new" /\ order'[j].size = i.qty /\ order'[j].filled = 0
            /\ order'[j].gross = 0
        BY <2>4, <3>1
      <4>2. Exposed(order'[j], m) = 0 + (i.qty - 0) * m
        BY <4>1 DEF Exposed, LiveStates, DetourStates
      <4>3. 0 + (i.qty - 0) * m = i.qty * m
        BY <3>1
      <4> QED BY <2>4, <4>2, <4>3 DEF Worst
    <3>4. order'[j] = None => Worst(i, order'[j], g, m) = i.qty * m
      BY <2>4 DEF Worst
    <3> QED BY <2>1, <2>2, <3>2, <3>3, <3>4
  <2>5. CASE Purchase(i) /\ order[j] # None /\ order'[j] # None /\ Moved(order[j], order'[j], m)
    <3>1. Worst(i, order[j], g, m) = Exposed(order[j], m)
          /\ Worst(i, order'[j], g, m) = Exposed(order'[j], m)
      BY <2>5 DEF Worst
    <3> QED BY <2>1, <2>2, <2>5, <3>1 DEF Moved
  <2> QED BY <1>2, <2>3, <2>4, <2>5
<1>6. Total(Worsts(m)', Keys) <= Total(Worsts(m), Keys)
  <2> DEFINE f == Worsts(m)'
             h == Worsts(m)
  <2>1. \A j \in Keys : f[j] \in Int /\ h[j] \in Int /\ f[j] <= h[j]
    BY <1>5
  <2> HIDE DEF f, h
  <2>2. Total(f, Keys) <= Total(h, Keys)
    BY <2>1, TotalMonotone
  <2> QED BY <2>2 DEF f, h
<1>7. Total(Worsts(m)', Keys) \in Int /\ Total(Worsts(m), Keys) \in Int
  BY <1>5, TotalType
<1>8. Total(Worsts(m), Keys)' <= StartingCash
  BY <1>6, <1>7, StartingCashAssumption DEF Capital
<1>9. ASSUME pc' = "create_intent", proposal'.action \in Opening
      PROVE  Total(Worsts(m), Keys)' + proposal'.qty * m <= StartingCash
  <2>1. pc = "create_intent" /\ proposal' = proposal
    BY <1>1, <1>9
  <2>2. proposal.qty \in Nat
    <3>1. DerivedIntent(mem, proposal) # None /\ proposal \in ProposalType
      BY <2>1, KernelAssumption DEF Typing, Situation, HandlerSteps, Steps
    <3> QED BY <1>9, <2>1, <3>1 DEF DerivedIntent, DerivedQuantity, Opening, ProposalType
  <2>3. proposal.qty * m \in Int
    BY <2>2
  <2>4. Total(Worsts(m), Keys) + proposal.qty * m <= StartingCash
    BY <1>9, <2>1 DEF Capital
  <2> QED BY <1>6, <1>7, <2>1, <2>3, <2>4, StartingCashAssumption
<1> QED BY <1>1, <1>3, <1>4, <1>8, <1>9 DEF Capital

\* A recorded fill is booked at what was paid for it.
LEMMA RecordCapital ==
  ASSUME IsFiniteSet(Keys), Typing, Typing', Submission, NEW m \in Nat, Evident(m), Capital(m),
         mem = ledger, order' = order, spent' = spent, pc' # "create_intent",
         NEW r \in Reports, Record(r), Told(r, m)
  PROVE  Capital(m)'
<1> DEFINE b == ledger.book
           c == ledger'.book
           k == r.key
<1>1. ledger'.intent = ledger.intent
  BY RecordFrame
<1>2. b \in Books /\ k \in Keys /\ r.gross \in Nat
  BY DEF Typing, TypeOK, KernelStates, Reports
<1>3. Payments' = Payments
  BY DEF Payments
<1>4. \/ c.cash = b.cash /\ c.gross = b.gross
      \/ c = WithFill(b, r) /\ IsFill(r)
  <2>1. c = b \/ c = ApplyReport(b, r)
    BY DEF Record, HydratedReport, Typing, TypeOK, KernelStates
  <2>2. \/ ApplyReport(b, r) = b
        \/ ApplyReport(b, r) = [b EXCEPT !.broken = TRUE]
        \/ ApplyReport(b, r) = WithFill(b, r) /\ IsFill(r)
    BY DEF ApplyReport
  <2>3. [b EXCEPT !.broken = TRUE].cash = b.cash /\ [b EXCEPT !.broken = TRUE].gross = b.gross
    BY <1>2 DEF Books
  <2> HIDE DEF b, c
  <2> QED BY <2>1, <2>2, <2>3
<1>5. CASE c.cash = b.cash /\ c.gross = b.gross
  <2>1. Costs' = Costs /\ Worsts(m)' = Worsts(m)
    BY <1>1, <1>5 DEF Costs, Worsts
  <2> QED BY <1>3, <1>5, <2>1 DEF Capital
<1>6. CASE c = WithFill(b, r) /\ IsFill(r)
  <2> DEFINE i == ledger.intent[k]
             sign == IF r.side = "BUY" THEN 1 ELSE -1
  <2>1. /\ r.order = k /\ order[k] # None /\ r.side = order[k].side /\ r.fee = 0 /\ b.fee[k] = 0
        /\ b.gross[k] <= r.gross
    BY <1>2, <1>6 DEF Told, Behind, Evident, Figures
  <2>2. i # None /\ r.side = i.side
    BY <1>2, <2>1, RecordedIntent
  <2>3. /\ c.cash = b.cash - sign * (r.gross - b.gross[k])
        /\ c.gross = [b.gross EXCEPT ![k] = r.gross]
    BY <1>2, <1>6, <2>1 DEF WithFill, Delta, Books
  <2>4. b.gross[k] \in Nat /\ b.cash \in Int
    BY <1>2 DEF Books
  <2>5. /\ c.gross[k] = r.gross
        /\ \A j \in Keys \ {k} : c.gross[j] = b.gross[j]
    BY <1>2, <2>3 DEF Books
  <2>6. ASSUME NEW j \in Keys
        PROVE  /\ Costs[j] \in Int /\ Costs'[j] \in Int
               /\ Worsts(m)[j] \in Int /\ Worsts(m)'[j] \in Int
    BY CapitalTypes, NextCapitalTypes
  <2>7. /\ Costs[k] = BookedCost(i, b.gross[k]) /\ Costs'[k] = BookedCost(i, r.gross)
        /\ \A j \in Keys \ {k} : Costs'[j] = Costs[j]
    BY <1>1, <1>2, <2>5 DEF Costs
  <2>8. /\ Worsts(m)[k] = Worst(i, order[k], b.gross[k], m)
        /\ Worsts(m)'[k] = Worst(i, order[k], r.gross, m)
        /\ \A j \in Keys \ {k} : Worsts(m)'[j] = Worsts(m)[j]
    BY <1>1, <1>2, <2>5 DEF Worsts
  <2>9. b.cash = StartingCash - Total(Costs, Keys) /\ Total(Worsts(m), Keys) <= StartingCash
    BY DEF Capital
  <2> HIDE DEF i, b, c, k
  <2>10. Costs'[k] - Costs[k] = sign * (r.gross - b.gross[k])
    BY <1>2, <2>2, <2>4, <2>7 DEF BookedCost
  <2>11. Worsts(m)'[k] <= Worsts(m)[k]
    BY <1>2, <2>1, <2>2, <2>4, <2>6, <2>8 DEF Worst, BookedCost, Purchase
  <2>12. /\ Total(Costs, Keys) \in Int
         /\ Total(Costs', Keys) = Total(Costs, Keys) + (Costs'[k] - Costs[k])
    BY <1>2, <2>6, <2>7, TotalChange
  <2>13. c.cash = StartingCash - Total(Costs', Keys)
    <3> DEFINE d == sign * (r.gross - b.gross[k])
    <3>1. d \in Int
      BY <1>2, <2>4
    <3> HIDE DEF d
    <3>2. c.cash = b.cash - d /\ Costs'[k] - Costs[k] = d
      BY <2>3, <2>10 DEF d
    <3> QED BY <2>4, <2>9, <2>12, <3>1, <3>2, StartingCashAssumption
  <2>14. Total(Worsts(m)', Keys) <= StartingCash
    <3>1. \A j \in Keys : Worsts(m)'[j] <= Worsts(m)[j]
      BY <2>6, <2>8, <2>11
    <3>2. Total(Worsts(m)', Keys) <= Total(Worsts(m), Keys)
      BY <2>6, <3>1, TotalMonotone
    <3>3. Total(Worsts(m)', Keys) \in Int /\ Total(Worsts(m), Keys) \in Int
      BY <2>6, TotalType
    <3> QED BY <2>9, <3>2, <3>3, StartingCashAssumption
  <2> QED BY <1>3, <2>13, <2>14 DEF Capital, c
<1> QED BY <1>4, <1>5, <1>6

LEMMA NextCapital ==
  ASSUME IsFiniteSet(Keys), Typing, Typing', Durable, Submission, Closure, Unsuspended,
         ~CancelsAfterFills, NEW m \in Nat, Bounded(m), EstimatesCover(m), Evident(m),
         Estimated(m), Capital(m), [Next]_vars
  PROVE  Capital(m)'
<1>1. ASSUME NEW p \in Proposals, Receive(p)
      PROVE  /\ ledger'.book = ledger.book /\ ledger'.intent = ledger.intent
             /\ order' = order /\ spent' = spent /\ pc' # "create_intent"
  BY <1>1 DEF Receive, HydratedProposal, Raise, Return, Goto, Typing, TypeOK, KernelStates,
              venueVars
<1>2. ASSUME /\ ledger'.book = ledger.book /\ ledger'.intent = ledger.intent
             /\ order' = order /\ spent' = spent
             /\ pc' # "create_intent" \/ UNCHANGED <<pc, proposal>>
      PROVE  Capital(m)'
  <2>1. Costs' = Costs /\ Payments' = Payments /\ Worsts(m)' = Worsts(m)
    BY <1>2 DEF Costs, Payments, Worsts
  <2> QED BY <1>2, <2>1 DEF Capital
<1>3. ASSUME Neutral PROVE Capital(m)'
  BY <1>2, <1>3 DEF Neutral
<1> QED BY <1>1, <1>2, <1>3, StepKinds, DecideCapital, CreateIntentCapital, VenueCapital,
           RecordCapital

\* Nothing adds up to nothing.
LEMMA TotalZero ==
  ASSUME NEW S, IsFiniteSet(S), NEW f, \A x \in S : f[x] = 0
  PROVE  Total(f, S) = 0
<1>1. Total(f, {}) = Total(f, S)
  BY TotalSubset
<1>2. Total(f, {}) = 0
  BY TotalChosen, FS_EmptySet
<1> QED BY <1>1, <1>2

LEMMA InitSound ==
  ASSUME IsFiniteSet(Keys), NEW m \in Nat, Init
  PROVE  Evident(m) /\ Estimated(m) /\ Capital(m)
<1>1. /\ ledger = EmptyState /\ order = [k \in Keys |-> None] /\ spent = 0 /\ pc = "down"
  BY DEF Init, VenueInit
<1>2. /\ \A k \in Keys : /\ ledger.intent[k] = None /\ ledger.status[k] = "CREATED"
                         /\ ledger.book.qty[k] = 0 /\ ledger.book.gross[k] = 0
                         /\ ledger.book.fee[k] = 0 /\ order[k] = None
      /\ ledger.seen = {} /\ ledger.book.cash = StartingCash
  BY <1>1 DEF EmptyState, EmptyBook
<1>3. Evident(m)
  BY <1>1, <1>2 DEF Evident, Figures, Recorded, Telling
<1>4. Estimated(m)
  BY <1>1, <1>2 DEF Estimated, Purchase
<1>5. \A k \in Keys : Costs[k] = 0 /\ Payments[k] = 0 /\ Worsts(m)[k] = 0
  BY <1>2 DEF Costs, Payments, Worsts, BookedCost, Paid, Worst, Purchase
<1>6. Total(Costs, Keys) = 0 /\ Total(Payments, Keys) = 0 /\ Total(Worsts(m), Keys) = 0
  BY <1>5, TotalZero
<1> QED BY <1>1, <1>2, <1>3, <1>4, <1>6, StartingCashAssumption DEF Capital

\* What is paid and what is booked stay below the worst, and that below the capital.
LEMMA WorstBounds ==
  ASSUME IsFiniteSet(Keys), Typing, Submission, NEW m \in Nat, Evident(m), Capital(m)
  PROVE  spent <= StartingCash /\ ledger.book.cash >= 0
<1>1. ASSUME NEW k \in Keys
      PROVE  Payments[k] <= Worsts(m)[k] /\ Costs[k] <= Worsts(m)[k]
  <2> DEFINE i == ledger.intent[k]
             o == order[k]
             g == ledger.book.gross[k]
  <2>1. /\ g \in Nat /\ ledger.book.qty[k] \in Nat
        /\ i # None => i.qty \in Nat /\ i.side \in {"BUY", "SELL"}
    BY DEF Typing, TypeOK, KernelStates, Books, Intents, OrderSide
  <2>2. /\ Payments[k] = Paid(o) /\ Costs[k] = BookedCost(i, g)
        /\ Worsts(m)[k] = Worst(i, o, g, m)
    BY DEF Payments, Costs, Worsts
  <2>3. ASSUME o # None
        PROVE  /\ i # None /\ o.side = i.side /\ o.gross \in Nat /\ g <= o.gross
               /\ o.gross <= Exposed(o, m) /\ g <= Exposed(o, m)
    <3>1. /\ o \in VenueOrders /\ o.filled <= o.size
          /\ Behind(ledger.book.qty[k], g, o.filled, o.gross, m)
      BY <2>3 DEF Evident, Figures, Typing, TypeOK
    <3>2. i # None /\ o.side = i.side
      BY <2>3, RecordedIntent
    <3>3. o.gross <= Exposed(o, m) /\ g <= Exposed(o, m)
      BY <2>1, <3>1, ExposedBook
    <3> QED BY <3>1, <3>2, <3>3 DEF VenueOrders, Behind
  <2>4. o = None => g = 0
    BY DEF Evident, Figures
  <2>5. Purchase(i) => i.qty * m \in Nat
    BY <2>1 DEF Purchase
  <2> HIDE DEF i, o, g
  <2>6. CASE o # None
    BY <2>1, <2>2, <2>3, <2>6 DEF Paid, BookedCost, Worst, Purchase
  <2>7. CASE o = None
    <3>1. CASE Purchase(i)
      <4>1. Worst(i, o, g, m) = i.qty * m
        BY <2>7, <3>1 DEF Worst
      <4> QED BY <2>2, <2>4, <2>5, <2>7, <3>1, <4>1 DEF Paid, BookedCost, Purchase
    <3>2. CASE ~Purchase(i)
      BY <2>2, <2>4, <2>7, <3>2 DEF Paid, BookedCost, Worst
    <3> QED BY <3>1, <3>2
  <2> QED BY <2>6, <2>7
<1>2. \A k \in Keys : Payments[k] \in Int /\ Costs[k] \in Int /\ Worsts(m)[k] \in Int
  BY CapitalTypes
<1>3. Total(Payments, Keys) <= Total(Worsts(m), Keys) /\ Total(Costs, Keys) <= Total(Worsts(m), Keys)
  BY <1>1, <1>2, TotalMonotone
<1>4. Total(Payments, Keys) \in Int /\ Total(Costs, Keys) \in Int /\ Total(Worsts(m), Keys) \in Int
  BY <1>2, TotalType
<1> QED BY <1>3, <1>4, StartingCashAssumption DEF Capital

\* What holds of a kernel whose estimates cover the exchange's prices.
Sound(m) ==
  /\ Typing /\ Durable /\ Submission /\ Closure /\ Unsuspended
  /\ Evident(m) /\ Estimated(m) /\ Capital(m)

LEMMA SoundInduction ==
  ASSUME IsFiniteSet(Keys), ~CancelsAfterFills, NeverSuspends, NEW m \in Nat, Bounded(m),
         EstimatesCover(m)
  PROVE  /\ Init => Sound(m)
         /\ Sound(m) /\ [Next]_vars => Sound(m)'
<1>1. Init => Sound(m)
  <2>1. Init => Durable
    BY DEF Init, Durable
  <2> QED BY <2>1, InitTyping, InitSubmission, InitClosure, InitUnsuspended, InitSound DEF Sound
<1>2. ASSUME Sound(m), [Next]_vars PROVE Sound(m)'
  <2>1. Typing' /\ Durable' /\ Submission' /\ Closure' /\ Unsuspended'
    BY <1>2, NextTyping, NextDurable, NextSubmission, NextClosure, NextUnsuspended DEF Sound
  <2>2. Evident(m)' /\ Estimated(m)' /\ Capital(m)'
    BY <1>2, <2>1, NextEvident, NextEstimated, NextCapital DEF Sound
  <2> QED BY <2>1, <2>2 DEF Sound
<1> QED BY <1>1, <1>2

\* The account never pays more, net of its sales, than the capital it was given: not over partial
\* fills, duplicate proposals, unknown submissions and kills (_reserved_cash, _available_cash,
\* RiskEngine.evaluate).  The estimate of a purchase has to cover the dearest fill, whichever of
\* the proposals under its key was the last to be noted; kernel.py:198 overwrites it.  An order the
\* exchange only suspends must not occur: its reservation is released while it may still fill.
THEOREM Authority ==
  ASSUME IsFiniteSet(Keys), ~CancelsAfterFills, NeverSuspends,
         NEW dearest \in Nat, Bounded(dearest), EstimatesCover(dearest)
  PROVE  Spec => []AuthorityKept
<1>1. Sound(dearest) => AuthorityKept
  BY WorstBounds DEF Sound, AuthorityKept
<1>2. /\ Init => Sound(dearest)
      /\ Sound(dearest) /\ [Next]_vars => Sound(dearest)'
  BY SoundInduction
<1> QED BY <1>1, <1>2, PTL DEF Spec

\* Under the same conditions the replayed cash is never negative, which PortfolioState refuses.
THEOREM CashKept ==
  ASSUME IsFiniteSet(Keys), ~CancelsAfterFills, NeverSuspends,
         NEW dearest \in Nat, Bounded(dearest), EstimatesCover(dearest)
  PROVE  Spec => [](ledger.book.cash >= 0)
<1>1. Sound(dearest) => ledger.book.cash >= 0
  BY WorstBounds DEF Sound
<1>2. /\ Init => Sound(dearest)
      /\ Sound(dearest) /\ [Next]_vars => Sound(dearest)'
  BY SoundInduction
<1> QED BY <1>1, <1>2, PTL DEF Spec

-----------------------------------------------------------------------------
(* The kernel alone, buying.                                               *)

\* No proposal asks for a sale.
NoSales == \A p \in Proposals : p.action \in Opening \cup {"HOLD", "CANCEL"}

\* Every order is a purchase and no report ever stopped the replay.
Buying ==
  /\ ~ledger.book.broken
  /\ \A k \in Keys : ledger.intent[k] # None => ledger.intent[k].side = "BUY"

LEMMA NextBuying ==
  ASSUME Typing, Durable, Submission, NEW m \in Nat, Evident(m), NoSales, Buying, [Next]_vars
  PROVE  Buying'
<1>1. ASSUME ledger'.book = ledger.book, ledger'.intent = ledger.intent PROVE Buying'
  BY <1>1 DEF Buying
<1>2. ASSUME NEW p \in Proposals, Receive(p) PROVE Buying'
  BY <1>1, <1>2 DEF Receive, HydratedProposal, Typing, TypeOK, KernelStates
<1>3. ASSUME Decide PROVE Buying'
  BY <1>1, <1>3 DEF Decide, HydratedDecision, Typing, TypeOK, KernelStates
<1>4. ASSUME CreateIntent PROVE Buying'
  <2> DEFINE i == DerivedIntent(mem, proposal)
  <2>1. mem = ledger /\ proposal \in Proposals /\ mem \in KernelStates
    BY <1>4 DEF CreateIntent, At, Durable, Typing, TypeOK, Situation, HandlerSteps, Steps
  <2>2. i # None /\ DerivedQuantity(mem, proposal) # 0
    BY <1>4 DEF CreateIntent, At, Typing, Situation
  <2>3. i.key = proposal.key /\ i.side = "BUY"
    <3>1. proposal.action \in Opening
      BY <2>1, <2>2 DEF NoSales, DerivedIntent, DerivedQuantity
    <3> QED BY <2>1, <2>2, <3>1, DerivedIntentType, KernelAssumption
  <2>4. /\ ledger'.intent = [ledger.intent EXCEPT ![proposal.key] = i]
        /\ ledger'.book = ledger.book
    BY <1>4, <2>1, <2>3 DEF CreateIntent, HydratedTransition, HydratedIntent, KernelStates
  <2> HIDE DEF i
  <2> QED BY <2>1, <2>3, <2>4 DEF Buying, KernelStates
<1>5. ASSUME VenueActs \/ SendCancel PROVE Buying'
  BY <1>1, <1>5 DEF VenueActs, SendCancel, kernelVars
<1>6. ASSUME Neutral PROVE Buying'
  BY <1>1, <1>6 DEF Neutral
<1>7. ASSUME NEW r \in Reports, Record(r), Told(r, m) PROVE Buying'
  <2> DEFINE b == ledger.book
             k == r.key
  <2>1. ledger'.intent = ledger.intent
    BY <1>7, RecordFrame
  <2>2. ledger'.book = b \/ ledger'.book = ApplyReport(b, r)
    BY <1>7 DEF Record, HydratedReport, Typing, TypeOK, KernelStates
  <2>3. k \in Keys /\ r.qty \in Nat /\ r.gross \in Nat /\ b \in Books
    BY DEF Reports, Typing, TypeOK, KernelStates
  <2>4. r.currency = AccountCurrency
    BY <1>7 DEF Told
  <2>5. ASSUME IsFill(r) PROVE ~Regressed(b, r) /\ ~WouldGoShort(b, r, Delta(b.qty[r.order], r.qty))
    <3>1. /\ r.order = k /\ order[k] # None /\ r.side = order[k].side
          /\ b.qty[k] <= r.qty /\ b.gross[k] <= r.gross /\ r.fee = 0 /\ b.fee[k] = 0
      BY <1>7, <2>3, <2>5 DEF Told, Behind, Evident, Figures
    <3>2. ~Regressed(b, r)
      <4>1. b.qty[k] \in Nat /\ b.gross[k] \in Nat
        BY <2>3 DEF Books
      <4> QED BY <2>3, <3>1, <4>1 DEF Regressed
    <3>3. r.side = "BUY"
      BY <2>3, <3>1, RecordedIntent DEF Buying
    <3> QED BY <3>2, <3>3 DEF WouldGoShort
  <2>6. ~ApplyReport(b, r).broken
    BY <2>4, <2>5 DEF ApplyReport, WithFill, Buying
  <2> QED BY <2>1, <2>2, <2>6 DEF Buying
<1> QED BY <1>2, <1>3, <1>4, <1>5, <1>6, <1>7, StepKinds

\* A kernel that only buys never meets a ledger whose replay raises, whoever drives it
\* (PortfolioReconciler.replay_events).  One that sells may: the risk engine lets two sales of one
\* position pass, and only the order in which the runs work keeps them apart (RunsReplay).
THEOREM PurchasesReplay ==
  ASSUME IsFiniteSet(Keys), ~CancelsAfterFills, NeverSuspends, NoSales,
         NEW dearest \in Nat, Bounded(dearest), EstimatesCover(dearest)
  PROVE  Spec => []LedgerReplayable
<1>1. Init => Buying
  BY DEF Init, EmptyState, EmptyBook, Buying
<1>2. Sound(dearest) /\ Buying /\ [Next]_vars => Buying'
  BY NextBuying DEF Sound
<1>3. ledger.book.cash >= 0 /\ Buying => LedgerReplayable
  BY DEF LedgerReplayable, Replayable, Buying
<1>4. /\ Init => Sound(dearest)
      /\ Sound(dearest) /\ [Next]_vars => Sound(dearest)'
  BY SoundInduction
<1>5. Spec => [](ledger.book.cash >= 0)
  BY CashKept
<1> QED BY <1>1, <1>2, <1>3, <1>4, <1>5, PTL DEF Spec

=============================================================================
