------------------------- MODULE PaperRuntimeProofs -------------------------
(***************************************************************************)
(* Theorems about PaperRuntime, for every value of its constants.  A run   *)
(* uses the kernel as ExecutionKernel allows, so that everything proved of *)
(* the kernel holds of every sequence of runs; and the strategy only ever  *)
(* decides on a settled account.                                           *)
(*                                                                         *)
(* The second part is about the account: the exchange never holds a short  *)
(* position, the book never shows what the exchange did not do, and the    *)
(* replay of the ledger never raises.  None of this holds of the kernel    *)
(* alone: two sales of the same position pass the risk engine one after    *)
(* the other.  It holds of the runs, which decide on a settled account and *)
(* send one order per symbol.                                              *)
(***************************************************************************)
EXTENDS PaperRuntime, ExecutionKernelProofs

-----------------------------------------------------------------------------
(* The runtime implements the kernel.                                      *)

\* What a run still has to hand over are proposals.
Planned == bar \in 1 .. MaxBar /\ plan \in Seq(Proposals)

LEMMA NextPlanned ==
  ASSUME Planned, [RuntimeNext]_allVars
  PROVE  Planned'
<1>1. ASSUME End PROVE Planned'
  BY <1>1 DEF End, NewRun, Planned
<1>2. CASE BeginCycle
  <2>1. plan' \in Plans[bar] /\ bar' = bar
    BY <1>2 DEF BeginCycle
  <2> QED BY <2>1, RuntimeAssumption DEF Planned
<1>3. CASE HandleNext
  <2>1. plan # <<>> /\ plan' = Tail(plan) /\ bar' = bar
    BY <1>3 DEF HandleNext
  <2> QED BY <2>1 DEF Planned
<1>4. CASE Killed
  BY <1>4 DEF Killed, NewRun, Planned
<1>5. CASE NextBar
  <2>1. bar' = bar + 1 /\ bar < MaxBar /\ plan' = plan
    BY <1>5 DEF NextBar, runVars
  <2> QED BY <2>1, RuntimeAssumption DEF Planned
<1>6. ASSUME UNCHANGED <<plan, bar>> PROVE Planned'
  BY <1>6 DEF Planned
<1>7. CASE FetchPositions \/ Guard \/ SkipCycle \/ CompleteCycle \/ FinishBootstrap \/ Uncaught
  BY <1>1, <1>6, <1>7
     DEF FetchPositions, Guard, SkipCycle, CompleteCycle, FinishBootstrap, Uncaught
<1>8. CASE \/ Launch \/ HandlerStep
           \/ \E k \in Keys : LookUpPending(k) \/ NotFound(k) \/ VenueMoves(k)
           \/ UNCHANGED allVars
  BY <1>6, <1>8 DEF Launch, HandlerStep, LookUpPending, NotFound, VenueMoves, runtimeVars,
                    runVars, allVars
<1> QED BY <1>2, <1>3, <1>4, <1>5, <1>7, <1>8 DEF RuntimeNext, RunStep

LEMMA KernelStep ==
  ASSUME Planned, [RuntimeNext]_allVars
  PROVE  [Next]_vars
<1>1. ASSUME End PROVE Next
  BY <1>1 DEF End, Next
<1>2. CASE Launch
  BY <1>2 DEF Launch, Next
<1>3. CASE \E k \in Keys : LookUpPending(k) \/ NotFound(k)
  BY <1>3 DEF LookUpPending, NotFound, Next, ReconcileReport
<1>4. CASE FetchPositions \/ Guard \/ SkipCycle \/ CompleteCycle \/ FinishBootstrap \/ Uncaught
  BY <1>1, <1>4 DEF FetchPositions, Guard, SkipCycle, CompleteCycle, FinishBootstrap, Uncaught
<1>5. CASE BeginCycle \/ NextBar \/ UNCHANGED allVars
  BY <1>5 DEF BeginCycle, NextBar, allVars
<1>6. CASE HandleNext
  <2>1. plan # <<>> /\ Receive(Head(plan))
    BY <1>6 DEF HandleNext
  <2>2. Head(plan) \in Proposals
    BY <2>1 DEF Planned
  <2> QED BY <2>1, <2>2 DEF Next, HandleProposal
<1>7. CASE HandlerStep
  BY <1>7 DEF HandlerStep, Next, HandleProposal, ReconcileReport
<1>8. CASE Killed
  BY <1>8 DEF Killed, Next
<1>9. CASE \E k \in Keys : VenueMoves(k)
  BY <1>9 DEF VenueMoves, Next, VenueActs
<1> QED BY <1>2, <1>3, <1>4, <1>5, <1>6, <1>7, <1>8, <1>9 DEF RuntimeNext, RunStep

LEMMA InitPlanned == RuntimeInit => Planned
BY RuntimeAssumption DEF RuntimeInit, Planned

\* Every sequence of runs uses the kernel as ExecutionKernel says: handlers one after the other,
\* each started between two others, and a new kernel hydrated from the ledger for each run.
THEOREM Implementation == RuntimeSpec => Spec
<1>1. RuntimeInit => Init
  BY DEF RuntimeInit
<1>2. Planned /\ [RuntimeNext]_allVars => Planned' /\ [Next]_vars
  BY NextPlanned, KernelStep
<1> QED BY InitPlanned, <1>1, <1>2, PTL DEF RuntimeSpec, Spec

-----------------------------------------------------------------------------
(* Types.                                                                  *)

\* RuntimeTypeOK without the kernel's types.
RunTypes ==
  /\ phase \in Phases
  /\ phase = "off" <=> pc = "down"
  /\ todo \subseteq Keys
  /\ fetched \in [Symbols -> Int] \cup {None}
  /\ <<retire, inception, refused, booted>> \in BOOLEAN \X BOOLEAN \X BOOLEAN \X BOOLEAN
  /\ lastBar \in 0 .. MaxBar

LEMMA NextRunTypes ==
  ASSUME Typing, Planned, RunTypes, [RuntimeNext]_allVars
  PROVE  RunTypes'
<1> USE DEF RunTypes, Phases
<1>1. ASSUME End, booted' \in BOOLEAN, lastBar' \in 0 .. MaxBar PROVE RunTypes'
  BY <1>1 DEF End, NewRun, Stop, Goto
<1>2. CASE Launch
  <2>1. PendingOrders(ledger) \subseteq Keys
    BY DEF PendingOrders
  <2> QED BY <1>2, <2>1, RuntimeAssumption DEF Launch, Start, Goto, durableVars
<1>3. ASSUME NEW k \in Keys, LookUpPending(k) \/ NotFound(k) PROVE RunTypes'
  BY <1>3 DEF LookUpPending, LookUp, NotFound, InMain, Goto, durableVars, vars, kernelVars,
              processVars
<1>4. CASE FetchPositions
  BY <1>1, <1>4 DEF FetchPositions, InMain, durableVars, vars, kernelVars, processVars, venueVars,
                    Typing, TypeOK
<1>5. CASE Guard
  BY <1>1, <1>5 DEF Guard, BootstrapRequired, HasPositiveFill, InMain, durableVars, vars,
                    kernelVars, processVars
<1>6. CASE SkipCycle \/ Uncaught
  BY <1>1, <1>6 DEF SkipCycle, Uncaught, durableVars
<1>7. CASE BeginCycle
  BY <1>7 DEF BeginCycle, InMain, durableVars, vars, kernelVars, processVars
<1>8. CASE HandleNext
  BY <1>8 DEF HandleNext, LastRefused, Receive, Raise, Return, InMain, Goto, durableVars
<1>9. CASE CompleteCycle
  <2>1. bar \in 0 .. MaxBar
    BY RuntimeAssumption DEF Planned
  <2> QED BY <1>1, <1>9, <2>1
          DEF CompleteCycle, LastRefused, InMain, vars, kernelVars, processVars
<1>10. CASE FinishBootstrap
  BY <1>1, <1>10 DEF FinishBootstrap
<1>11. CASE HandlerStep
  <2>1. pc # "down" /\ pc' # "down"
    BY <1>11
       DEF HandlerStep, Decide, AfterApproval, CreateIntent, Validate, MarkSubmitting, Advance,
           SubmitRaises, Submit, ReplyKnown, ReplyUnknown, ReplyRaises, RecordSubmission,
           RecordReport, SettleSubmission, Settle, Reconcile, SettleReconciliation, Raise,
           FailSafe, Return, At, Goto
  <2> QED BY <1>11, <2>1 DEF HandlerStep, runtimeVars, runVars, durableVars
<1>12. CASE Killed
  BY <1>12 DEF Killed, Crash, NewRun, Goto, durableVars
<1>13. CASE NextBar \/ (\E k \in Keys : VenueMoves(k)) \/ UNCHANGED allVars
  BY <1>13 DEF NextBar, VenueMoves, allVars, vars, kernelVars, processVars, runtimeVars, runVars,
               durableVars
<1> QED BY <1>2, <1>3, <1>4, <1>5, <1>6, <1>7, <1>8, <1>9, <1>10, <1>11, <1>12, <1>13
        DEF RuntimeNext, RunStep

\* Every variable of main and of the cycle has its type, in every sequence of runs; control is
\* nowhere in main exactly when no process runs.
THEOREM RuntimeTypeCorrect == RuntimeSpec => []RuntimeTypeOK
<1>1. RuntimeInit => Typing /\ Planned /\ RunTypes
  <2>1. ASSUME RuntimeInit PROVE RunTypes
    <3>1. <<retire, inception, refused, booted>> \in BOOLEAN \X BOOLEAN \X BOOLEAN \X BOOLEAN
      BY <2>1 DEF RuntimeInit
    <3> QED BY <2>1, <3>1, RuntimeAssumption DEF RuntimeInit, Init, RunTypes, Phases
  <2> QED BY <2>1, InitTyping, InitPlanned DEF RuntimeInit
<1>2. Typing /\ Planned /\ RunTypes /\ [RuntimeNext]_allVars => (Typing /\ Planned /\ RunTypes)'
  BY KernelStep, NextTyping, NextPlanned, NextRunTypes
<1>3. Typing /\ Planned /\ RunTypes => RuntimeTypeOK
  BY DEF Typing, Planned, RunTypes, RuntimeTypeOK
<1> QED BY <1>1, <1>2, <1>3, PTL DEF RuntimeSpec

-----------------------------------------------------------------------------
(* What the exchange does with an order.                                   *)

LEMMA VenueShift ==
  ASSUME Typing, NEW k \in Keys, NEW st, Shift(k, st)
  PROVE  /\ Live(k) /\ order[k] # None /\ order[k] \in VenueOrders
         /\ order'[k] # None /\ order'[k] \in VenueOrders
         /\ order'[k].st = st /\ st \in (LiveStates \cup ClosedStates) \ {"filled"}
         /\ order'[k].symbol = order[k].symbol /\ order'[k].side = order[k].side
         /\ order'[k].size = order[k].size /\ order'[k].filled = order[k].filled
         /\ order'[k].gross = order[k].gross
         /\ \A j \in Keys \ {k} : order'[j] = order[j]
         /\ wire' = wire /\ shares' = shares
<1>1. /\ order[k] # None /\ order[k] \in VenueOrders /\ order'[k] = InState(order[k], st)
      /\ st \in LiveStates \cup ClosedStates
      /\ \A j \in Keys \ {k} : order'[j] = order[j]
      /\ wire' = wire /\ shares' = shares
  BY ShiftOrder DEF Typing
<1> QED BY <1>1, InStateOrder DEF Shift

LEMMA VenueFill ==
  ASSUME Typing, NEW k \in Keys, NEW px \in FillPrices, Fill(k, px)
  PROVE  /\ Live(k) /\ order[k] # None /\ order[k] \in VenueOrders
         /\ order'[k] # None /\ order'[k] \in VenueOrders /\ order'[k].st \in FillResults
         /\ order'[k].st = "filled" <=> order[k].filled + 1 = order[k].size
         /\ order'[k].symbol = order[k].symbol /\ order'[k].side = order[k].side
         /\ order'[k].size = order[k].size /\ order'[k].filled = order[k].filled + 1
         /\ order'[k].gross = order[k].gross + px
         /\ \A j \in Keys \ {k} : order'[j] = order[j]
         /\ wire' = wire
<1>1. PICK st \in FillResults :
        /\ order' = [order EXCEPT ![k] = [order[k] EXCEPT !.st = st, !.filled = @ + 1,
                                                          !.gross = @ + px]]
        /\ st = "filled" <=> order[k].filled + 1 = order[k].size
  BY FillOrder
<1>2. Live(k) /\ order[k] # None /\ order[k] \in VenueOrders /\ wire' = wire
  BY DEF Fill, Live, Typing, TypeOK
<1>3. order'[k] \in VenueOrders /\ order'[k] # None
  BY <1>2, FillType, NoneAssumption DEF Typing
<1>4. /\ order'[k] = [order[k] EXCEPT !.st = st, !.filled = @ + 1, !.gross = @ + px]
      /\ \A j \in Keys \ {k} : order'[j] = order[j]
  BY <1>1 DEF Typing, TypeOK
<1>5. /\ order'[k].st = st /\ order'[k].symbol = order[k].symbol
      /\ order'[k].side = order[k].side /\ order'[k].size = order[k].size
      /\ order'[k].filled = order[k].filled + 1 /\ order'[k].gross = order[k].gross + px
  BY <1>2, <1>4 DEF VenueOrders
<1> QED BY <1>1, <1>2, <1>3, <1>4, <1>5

\* A step is about one request or one open order.
LEMMA VenueTouches ==
  ASSUME Typing, NEW k \in Keys, VenueStep(k)
  PROVE  /\ wire[k] # None \/ Live(k)
         /\ \A j \in Keys \ {k} : wire'[j] = wire[j] /\ order'[j] = order[j]
<1>1. CASE Arrive(k) \/ Vanish(k)
  BY <1>1 DEF Arrive, Vanish, Typing, TypeOK
<1>2. ASSUME NEW px \in FillPrices, Fill(k, px)
      PROVE  Live(k) /\ \A j \in Keys \ {k} : wire'[j] = wire[j] /\ order'[j] = order[j]
  BY <1>2, VenueFill
<1>3. ASSUME NEW st, Shift(k, st)
      PROVE  Live(k) /\ \A j \in Keys \ {k} : wire'[j] = wire[j] /\ order'[j] = order[j]
  BY <1>3, VenueShift
<1> QED BY <1>1, <1>2, <1>3, VenueMovesOrder

-----------------------------------------------------------------------------
(* The account is settled when the strategy decides.                       *)

Quiet == \A k \in Keys : wire[k] = None /\ ~Live(k)

\* A request in flight is about an order the exchange does not have.
InFlight == \A k \in Keys : wire[k] # None => order[k] = None

LEMMA NextInFlight ==
  ASSUME Typing, InFlight, [Next]_vars
  PROVE  InFlight'
<1>1. ASSUME UNCHANGED <<wire, order>> PROVE InFlight'
  BY <1>1 DEF InFlight
<1>2. CASE Submit
  <2> DEFINE i == mem.intent[proposal.key]
  <2>1. /\ order' = order
        /\ \/ wire' = wire
           \/ order[i.key] = None /\ wire' = [wire EXCEPT ![i.key] = i]
    BY <1>2 DEF Submit
  <2> HIDE DEF i
  <2> QED BY <2>1 DEF InFlight, Typing, TypeOK
<1>3. ASSUME NEW k \in Keys, NEW st, Shift(k, st) PROVE InFlight'
  BY <1>3, VenueShift DEF InFlight
<1>4. CASE SendCancel
  <2>1. proposal.target \in Keys
    BY <1>4, KernelAssumption
       DEF SendCancel, At, Typing, Situation, HandlerSteps, Steps, ProposalType
  <2> QED BY <1>1, <1>3, <1>4, <2>1, CancelMovesOrder DEF venueVars
<1>5. CASE VenueActs
  <2>1. PICK k \in Keys : VenueStep(k)
    BY <1>5 DEF VenueActs
  <2>2. CASE Arrive(k) \/ Vanish(k)
    <3>1. wire'[k] = None /\ \A j \in Keys \ {k} : wire'[j] = wire[j] /\ order'[j] = order[j]
      BY <2>2 DEF Arrive, Vanish, Typing, TypeOK
    <3> QED BY <3>1 DEF InFlight
  <2>3. ASSUME NEW px \in FillPrices, Fill(k, px) PROVE InFlight'
    BY <2>3, VenueFill DEF InFlight
  <2> QED BY <1>3, <2>1, <2>2, <2>3, VenueMovesOrder
<1>6. ASSUME HandleProposal, ~Submit PROVE InFlight'
  BY <1>1, <1>6
     DEF HandleProposal, Receive, Decide, CreateIntent, Validate, MarkSubmitting, Advance,
         SubmitRaises, ReplyKnown, ReplyUnknown, ReplyRaises, RecordSubmission, RecordReport,
         SettleSubmission, Settle, venueVars
<1>7. ASSUME HandleCancel, ~SendCancel PROVE InFlight'
  BY <1>1, <1>7 DEF HandleCancel, CancelRaises, CancelReply, RecordCancellation, venueVars
<1>8. CASE ReconcileReport
  BY <1>1, <1>8 DEF ReconcileReport, LookUp, Reconcile, SettleReconciliation, Settle, venueVars
<1>9. CASE \/ \E k, claimed \in Keys : ForeignReport(k, claimed)
           \/ Start \/ Stop \/ Crash \/ \E next \in OwnerModes : SetMode(next)
           \/ UNCHANGED vars
  BY <1>1, <1>9 DEF ForeignReport, Start, Stop, Crash, SetMode, vars, venueVars
<1> QED BY <1>2, <1>4, <1>5, <1>6, <1>7, <1>8, <1>9 DEF Next

\* With no order pending in the ledger the exchange works none and none is on its way.
LEMMA NothingPending ==
  ASSUME Typing, Submission, Closure, Unsuspended, InFlight, PendingOrders(ledger) = {}
  PROVE  Quiet
<1> SUFFICES ASSUME NEW k \in Keys PROVE wire[k] = None /\ ~Live(k)
  BY DEF Quiet
<1>1. ledger.intent[k] = None \/ ledger.status[k] \in Terminal
  BY DEF PendingOrders
<1>2. CASE ledger.intent[k] = None
  BY <1>2 DEF Submission, Live
<1>3. CASE ledger.status[k] \in Terminal
  <2>1. order[k] # None /\ order[k].st \in ClosedStates
    BY <1>3, ClosedAsMapped DEF Closure
  <2> QED BY <2>1 DEF InFlight, Live, LiveStates, DetourStates, ClosedStates
<1> QED BY <1>1, <1>2, <1>3

\* main is between handlers where it deals with the account; with nothing pending the positions
\* it was told stay true while it asks for the open orders.
Settled ==
  /\ phase \in {"positions", "cycle"} => pc = "idle"
  /\ phase = "positions" /\ PendingOrders(ledger) = {} => fetched = shares
  /\ phase = "cycle" => PendingOrders(ledger) = {} /\ ledger.book.pos = shares

LEMMA NextSettled ==
  ASSUME Typing, Submission, Closure, Unsuspended, InFlight, Settled, [RuntimeNext]_allVars
  PROVE  Settled'
<1>1. ASSUME phase' \notin {"positions", "cycle"} PROVE Settled'
  BY <1>1 DEF Settled
<1>2. CASE FetchPositions
  <2>1. \/ phase' = "off"
        \/ /\ phase' = "positions" /\ fetched' = shares /\ pc = "idle"
           /\ UNCHANGED <<pc, shares>>
    BY <1>2 DEF FetchPositions, InMain, End, vars, kernelVars, processVars, venueVars
  <2> QED BY <2>1 DEF Settled
<1>3. CASE Guard
  <2>1. \/ phase' = "off"
        \/ /\ phase' = "cycle" /\ phase = "positions" /\ pc = "idle"
           /\ fetched = ledger.book.pos /\ PendingOrders(ledger) = {}
           /\ UNCHANGED <<pc, shares, ledger>>
    BY <1>3 DEF Guard, InMain, End, Consistent, MustWait, vars, kernelVars, processVars, venueVars
  <2>2. PendingOrders(ledger)' = {} <=> PendingOrders(ledger') = {}
    BY DEF PendingOrders
  <2>3. ASSUME UNCHANGED ledger PROVE PendingOrders(ledger') = PendingOrders(ledger)
    BY <2>3
  <2> QED BY <2>1, <2>2, <2>3 DEF Settled
<1>4. CASE HandlerStep
  <2>1. pc # "idle" /\ UNCHANGED phase
    BY <1>4
       DEF HandlerStep, Decide, CreateIntent, Validate, MarkSubmitting, Advance, SubmitRaises,
           Submit, ReplyKnown, ReplyUnknown, ReplyRaises, RecordSubmission, RecordReport,
           SettleSubmission, Settle, Reconcile, SettleReconciliation, At, runtimeVars, runVars
  <2> QED BY <1>1, <2>1 DEF Settled
<1>5. ASSUME NEW k \in Keys, VenueMoves(k) PROVE Settled'
  <2>1. UNCHANGED <<phase, pc, ledger, fetched>>
    BY <1>5 DEF VenueMoves, kernelVars, processVars, runtimeVars, runVars
  <2>2. wire[k] # None \/ Live(k)
    BY <1>5, VenueTouches DEF VenueMoves
  <2>3. PendingOrders(ledger) # {}
    BY <2>2, NothingPending DEF Quiet
  <2>4. PendingOrders(ledger') = PendingOrders(ledger)
    BY <2>1
  <2> QED BY <2>1, <2>3, <2>4 DEF Settled
<1>6. CASE \/ Launch \/ (\E k \in Keys : LookUpPending(k) \/ NotFound(k)) \/ SkipCycle
           \/ BeginCycle \/ HandleNext \/ CompleteCycle \/ FinishBootstrap \/ Uncaught
           \/ Killed \/ NextBar
  BY <1>1, <1>6
     DEF Launch, LookUpPending, NotFound, SkipCycle, BeginCycle, HandleNext, CompleteCycle,
         FinishBootstrap, Uncaught, Killed, NextBar, InMain, End, runVars
<1>7. CASE UNCHANGED allVars
  <2>1. UNCHANGED <<phase, pc, ledger, fetched, shares>>
    BY <1>7 DEF allVars, vars, kernelVars, processVars, venueVars, runtimeVars, runVars
  <2>2. PendingOrders(ledger') = PendingOrders(ledger)
    BY <2>1
  <2> QED BY <2>1, <2>2 DEF Settled
<1> QED BY <1>2, <1>3, <1>4, <1>5, <1>6, <1>7 DEF RuntimeNext, RunStep

\* Whatever fills, kills, timeouts and lost requests came before, a run reaches its strategy only
\* on a settled account: the book is what the exchange holds, and nothing can change that but
\* the run itself (main, guard_broker_state, pending_orders).  The exchange must suspend no order,
\* which the ledger takes for closed: MCRuntimeSuspended.
THEOREM SettledCycle ==
  ASSUME NeverSuspends
  PROVE  RuntimeSpec => []CycleOnSettledBook
<1> DEFINE Inv == /\ Typing /\ Durable /\ Submission /\ Closure /\ Unsuspended
                  /\ Planned /\ InFlight /\ Settled
<1>1. RuntimeInit => Inv
  <2>1. Init => Durable /\ InFlight
    BY DEF Init, VenueInit, Durable, InFlight
  <2>2. RuntimeInit => Settled
    BY DEF RuntimeInit, Settled
  <2> QED BY <2>1, <2>2, InitTyping, InitSubmission, InitClosure, InitUnsuspended, InitPlanned
          DEF RuntimeInit
<1>2. Inv /\ [RuntimeNext]_allVars => Inv'
  BY KernelStep, NextPlanned, NextTyping, NextDurable, NextSubmission, NextClosure,
     NextUnsuspended, NextInFlight, NextSettled
<1>3. Inv => CycleOnSettledBook
  BY NothingPending DEF Settled, Quiet, CycleOnSettledBook
<1> QED BY <1>1, <1>2, <1>3, PTL DEF RuntimeSpec

-----------------------------------------------------------------------------
(* What a cycle buys.                                                      *)

\* The steps from the receipt of a proposal to its submission.
OrderSteps == {"evaluate", "create_intent", "validate", "mark_submitting", "submit"}

Clear(p) == NothingOpen(p.symbol) /\ (p.action = "BUY" => shares[p.symbol] = 0)

\* The account is settled in the symbols of the proposals that are still to be submitted: the
\* orders of the cycle so far are in other symbols.
Trading ==
  /\ pc \in OrderSteps => Clear(proposal)
  /\ pc \in {"validate", "mark_submitting", "submit"} =>
       mem.intent[proposal.key].symbol = proposal.symbol
  /\ phase = "trade" =>
       \A n \in DOMAIN plan :
         /\ Clear(plan[n])
         /\ \A m \in 1 .. n - 1 : plan[m].symbol # plan[n].symbol
         /\ pc \in OrderSteps => plan[n].symbol # proposal.symbol

\* The exchange moves in no symbol without an order.
LEMMA VenueKeepsClear ==
  ASSUME Typing, NEW k \in Keys, VenueStep(k), NEW p, p.symbol \in Symbols, Clear(p)
  PROVE  Clear(p)'
<1> DEFINE s == p.symbol
<1>1. \A j \in Keys \ {k} : wire'[j] = wire[j] /\ order'[j] = order[j]
  BY VenueTouches
<1>2. CASE Arrive(k)
  <2>1. /\ wire[k].symbol # s /\ wire'[k] = None
        /\ order'[k].symbol = wire[k].symbol /\ shares' = shares
    BY <1>2 DEF Arrive, Clear, NothingOpen, Typing, TypeOK
  <2> QED BY <1>1, <2>1 DEF Clear, NothingOpen, Live
<1>3. CASE Vanish(k)
  <2>1. wire'[k] = None /\ order' = order /\ shares' = shares
    BY <1>3 DEF Vanish, Typing, TypeOK
  <2> QED BY <1>1, <2>1 DEF Clear, NothingOpen, Live
<1>4. ASSUME NEW px \in FillPrices, Fill(k, px) PROVE Clear(p)'
  <2>1. order[k].symbol # s /\ wire' = wire
    BY <1>4 DEF Fill, Clear, NothingOpen
  <2>3. order'[k].symbol = order[k].symbol
    BY <1>4, VenueFill
  <2>4. shares'[s] = shares[s]
    BY <1>4, <2>1 DEF Fill, Typing, TypeOK
  <2> QED BY <1>1, <2>1, <2>3, <2>4 DEF Clear, NothingOpen, Live
<1>5. ASSUME NEW st, Shift(k, st) PROVE Clear(p)'
  <2>1. /\ Live(k) /\ order'[k].symbol = order[k].symbol /\ wire' = wire /\ shares' = shares
    BY <1>5, VenueShift
  <2>2. order[k].symbol # s
    BY <2>1 DEF Clear, NothingOpen
  <2> QED BY <1>1, <2>1, <2>2 DEF Clear, NothingOpen, Live
<1> QED BY <1>2, <1>3, <1>4, <1>5, VenueMovesOrder

LEMMA BeginCycleTrading ==
  ASSUME Typing, Submission, Closure, Unsuspended, InFlight, Settled, Planned, BeginCycle
  PROVE  Trading'
<1>1. PICK sent \in Plans[bar] : Built(sent) /\ plan' = sent
  BY DEF BeginCycle
<1>2. sent \in Seq(Proposals)
  BY RuntimeAssumption DEF Planned
<1>3. pc' = "idle" /\ phase = "cycle" /\ UNCHANGED <<wire, order, shares>>
  BY DEF BeginCycle, InMain, vars, kernelVars, processVars, venueVars
<1>4. Quiet /\ ledger.book.pos = shares
  BY <1>3, NothingPending DEF Settled
<1>5. ASSUME NEW n \in DOMAIN sent PROVE Clear(sent[n])'
  <2>1. sent[n] \in Proposals /\ sent[n].symbol \in Symbols
    BY <1>2, KernelAssumption DEF ProposalType
  <2>2. ledger.book.pos[sent[n].symbol] \in Nat
    BY <2>1 DEF Typing, TypeOK, KernelStates, Books
  <2>3. sent[n].action = "BUY" => shares[sent[n].symbol] = 0
    BY <1>1, <1>4, <2>2 DEF Built, Fits
  <2> QED BY <1>3, <1>4, <2>3 DEF Clear, NothingOpen, Quiet, Live
<1>6. ASSUME NEW n \in DOMAIN sent, NEW m \in 1 .. n - 1
      PROVE  sent[m].symbol # sent[n].symbol
  <2>1. m \in DOMAIN sent /\ m < n
    BY <1>2
  <2> QED BY <1>1, <2>1 DEF Built
<1> QED BY <1>1, <1>3, <1>5, <1>6 DEF Trading, OrderSteps

LEMMA HandleNextTrading ==
  ASSUME Planned, Trading, HandleNext
  PROVE  Trading'
<1>1. /\ plan # <<>> /\ plan' = Tail(plan) /\ Receive(Head(plan)) /\ phase = "trade"
      /\ UNCHANGED <<phase, wire, order, shares>>
  BY DEF HandleNext, InMain, Receive, venueVars
<1>2. pc' = "idle" \/ (pc' = "evaluate" /\ proposal' = Head(plan))
  BY <1>1 DEF Receive, Raise, Return, Goto
<1>3. /\ 1 \in DOMAIN plan /\ Head(plan) = plan[1]
      /\ \A n \in DOMAIN plan' : n + 1 \in DOMAIN plan /\ plan'[n] = plan[n + 1]
  BY <1>1 DEF Planned
<1>4. \A p : Clear(p)' <=> Clear(p)
  BY <1>1 DEF Clear, NothingOpen, Live
<1>5. ASSUME NEW n \in DOMAIN plan'
      PROVE  /\ Clear(plan'[n])
             /\ \A m \in 1 .. n - 1 : plan'[m].symbol # plan'[n].symbol
             /\ plan'[n].symbol # Head(plan).symbol
  <2>1. n \in Nat /\ n >= 1
    BY <1>1 DEF Planned
  <2>2. \A m \in 1 .. n : plan[m].symbol # plan[n + 1].symbol
    BY <1>1, <1>3, <2>1 DEF Trading
  <2>3. \A m \in 1 .. n - 1 : m \in DOMAIN plan' /\ m + 1 \in 1 .. n
    BY <1>1, <2>1 DEF Planned
  <2> QED BY <1>1, <1>3, <2>1, <2>2, <2>3 DEF Trading
<1> QED BY <1>1, <1>2, <1>3, <1>4, <1>5 DEF Trading, OrderSteps

\* Steps that change nothing but where a handler is.
LEMMA QuietTrading ==
  ASSUME Trading, UNCHANGED <<venueVars, phase, plan>>,
         pc' \in OrderSteps => pc \in OrderSteps /\ proposal' = proposal,
         pc' \in {"validate", "mark_submitting", "submit"} =>
           mem'.intent[proposal'.key].symbol = proposal'.symbol
  PROVE  Trading'
<1>1. \A p : Clear(p)' <=> Clear(p)
  BY DEF Clear, NothingOpen, Live, venueVars
<1> QED BY <1>1 DEF Trading

LEMMA SubmitTrading ==
  ASSUME Typing, Submission, Durable, Planned, Trading, Submit, UNCHANGED <<phase, plan>>
  PROVE  Trading'
<1> DEFINE i == mem.intent[proposal.key]
<1>1. /\ pc = "submit" /\ pc' \notin OrderSteps /\ mem = ledger /\ UNCHANGED <<order, shares>>
      /\ proposal.key \in Keys
  BY KernelAssumption
     DEF Submit, At, Goto, OrderSteps, Durable, Typing, Situation, HandlerSteps, Steps, ProposalType
<1>2. i \in Intents /\ i.key = proposal.key /\ i.symbol = proposal.symbol
  BY <1>1 DEF Typing, TypeOK, Situation, IntentSteps, KernelStates, Submission, Trading
<1>3. wire' = wire \/ wire' = [wire EXCEPT ![i.key] = i]
  BY DEF Submit
<1>4. \A k \in Keys : wire'[k] = wire[k] \/ wire'[k] = i
  <2> HIDE DEF i
  <2> QED BY <1>3 DEF Typing, TypeOK
<1>5. ASSUME NEW p, Clear(p), p.symbol # proposal.symbol PROVE Clear(p)'
  BY <1>1, <1>2, <1>4, <1>5 DEF Clear, NothingOpen, Live
<1> QED BY <1>1, <1>5 DEF Trading, OrderSteps

LEMMA HandlerStepTrading ==
  ASSUME Typing, Submission, Durable, Planned, Trading, HandlerStep
  PROVE  Trading'
<1>1. UNCHANGED <<phase, plan>>
  BY DEF HandlerStep, runtimeVars, runVars
<1>2. CASE Decide
  <2>1. /\ pc = "evaluate" /\ UNCHANGED venueVars
        /\ pc' \in {"idle", "cancel", "create_intent"}
        /\ pc' = "create_intent" => proposal' = proposal
    BY <1>2 DEF Decide, At, Goto, AfterApproval, Return
  <2> QED BY <1>1, <2>1, QuietTrading DEF OrderSteps
<1>3. CASE CreateIntent
  <2> DEFINE i == DerivedIntent(mem, proposal)
  <2>1. /\ pc = "create_intent" /\ pc' = "validate" /\ proposal' = proposal
        /\ proposal \in Proposals /\ proposal.key \in Keys /\ UNCHANGED venueVars
    BY <1>3, KernelAssumption
       DEF CreateIntent, At, Goto, Typing, Situation, HandlerSteps, Steps, ProposalType
  <2>2. i # None
    BY <2>1 DEF Typing, Situation
  <2>3. i.key = proposal.key /\ i.symbol = proposal.symbol
    BY <2>2 DEF DerivedIntent
  <2>4. mem' = [mem EXCEPT !.intent[i.key] = i, !.status[i.key] = "CREATED"]
    BY <1>3 DEF CreateIntent
  <2> HIDE DEF i
  <2>5. mem'.intent[proposal.key] = i
    BY <2>1, <2>3, <2>4 DEF Typing, TypeOK, KernelStates
  <2> QED BY <1>1, <2>1, <2>3, <2>5, QuietTrading DEF OrderSteps
<1>4. CASE Validate \/ MarkSubmitting
  <2>1. /\ pc \in {"validate", "mark_submitting"}
        /\ pc' \in {"idle", "mark_submitting", "submit"}
        /\ pc' # "idle" => proposal' = proposal
        /\ UNCHANGED venueVars
    BY <1>4 DEF Validate, MarkSubmitting, Advance, At, Goto, Return
  <2>2. mem'.intent = mem.intent
    BY <1>4 DEF Validate, MarkSubmitting, Advance, Transition, Typing, TypeOK, KernelStates
  <2> QED BY <1>1, <2>1, <2>2, QuietTrading DEF OrderSteps, Trading
<1>5. CASE Submit
  BY <1>1, <1>5, SubmitTrading
<1>6. CASE \/ SubmitRaises \/ ReplyKnown \/ ReplyUnknown \/ ReplyRaises \/ RecordSubmission
           \/ SettleSubmission \/ Reconcile \/ SettleReconciliation
  <2>1. pc' \notin OrderSteps /\ UNCHANGED venueVars
    BY <1>6
       DEF SubmitRaises, ReplyKnown, ReplyUnknown, ReplyRaises, RecordSubmission, RecordReport,
           SettleSubmission, SettleReconciliation, Settle, Reconcile, Raise, FailSafe, Return,
           Goto, OrderSteps
  <2> QED BY <1>1, <2>1, QuietTrading DEF OrderSteps
<1> QED BY <1>2, <1>3, <1>4, <1>5, <1>6 DEF HandlerStep

LEMMA NextTrading ==
  ASSUME Typing, Durable, Submission, Closure, Unsuspended, InFlight, Settled, Planned, Trading,
         [RuntimeNext]_allVars
  PROVE  Trading'
<1>1. ASSUME phase' # "trade", pc' \notin OrderSteps PROVE Trading'
  BY <1>1 DEF Trading, OrderSteps
<1>2. ASSUME NEW k \in Keys, VenueMoves(k) PROVE Trading'
  <2>1. VenueStep(k) /\ UNCHANGED <<pc, proposal, mem, phase, plan>>
    BY <1>2 DEF VenueMoves, kernelVars, processVars, runtimeVars, runVars
  <2>2. pc \in OrderSteps => proposal.symbol \in Symbols
    BY KernelAssumption DEF OrderSteps, Typing, Situation, HandlerSteps, Steps, ProposalType
  <2>3. \A n \in DOMAIN plan : plan[n].symbol \in Symbols
    BY KernelAssumption DEF Planned, ProposalType
  <2> QED BY <2>1, <2>2, <2>3, VenueKeepsClear DEF Trading
<1>3. ASSUME End PROVE Trading'
  BY <1>1, <1>3 DEF End, Stop, Goto, OrderSteps
<1>4. CASE \/ Launch \/ (\E k \in Keys : LookUpPending(k) \/ NotFound(k)) \/ FetchPositions
           \/ Guard \/ SkipCycle \/ CompleteCycle \/ FinishBootstrap \/ Uncaught \/ Killed
  BY <1>1, <1>3, <1>4
     DEF Launch, Start, LookUpPending, LookUp, NotFound, FetchPositions, Guard, SkipCycle,
         CompleteCycle, FinishBootstrap, Uncaught, Killed, Crash, InMain, Goto, OrderSteps,
         vars, kernelVars, processVars
<1>5. CASE NextBar \/ UNCHANGED allVars
  <2>1. UNCHANGED <<venueVars, phase, plan, pc, proposal, mem>>
    BY <1>5 DEF NextBar, allVars, vars, kernelVars, processVars, runtimeVars, runVars
  <2> QED BY <2>1, QuietTrading DEF Trading
<1> QED BY <1>2, <1>4, <1>5, BeginCycleTrading, HandleNextTrading, HandlerStepTrading
        DEF RuntimeNext, RunStep

\* Only a submission posts.
LEMMA OnlySubmitPosts ==
  ASSUME [RuntimeNext]_allVars, UNCHANGED posts => FALSE
  PROVE  Submit
BY DEF RuntimeNext, RunStep, Launch, Start, LookUpPending, LookUp, NotFound, FetchPositions,
       Guard, SkipCycle, BeginCycle, HandleNext, Receive, CompleteCycle, FinishBootstrap,
       Uncaught, End, Stop, HandlerStep, Decide, CreateIntent, Validate, MarkSubmitting, Advance,
       SubmitRaises, ReplyKnown, ReplyUnknown, ReplyRaises, RecordSubmission, RecordReport,
       SettleSubmission, Settle, Reconcile, SettleReconciliation, Killed, Crash, NextBar,
       VenueMoves, allVars, vars, kernelVars

\* However runs are killed and bars acted on again, and whatever else the cycle sends out, a
\* BUY leaves the process only when nothing of its symbol is held or on order (main, run_cycle,
\* build_with_plan).
THEOREM BuysWhenFlat ==
  ASSUME NeverSuspends
  PROVE  RuntimeSpec => OpensOnlyWhenFlat
<1> DEFINE Inv == /\ Typing /\ Durable /\ Submission /\ Closure /\ Unsuspended
                  /\ Planned /\ InFlight /\ Settled /\ Trading
           Opens == \A k \in Keys :
                      posts'[k] # posts[k] /\ proposal.action = "BUY" =>
                        shares[proposal.symbol] = 0 /\ NothingOpen(proposal.symbol)
<1>1. RuntimeInit => Inv
  <2>1. Init => Durable /\ InFlight
    BY DEF Init, VenueInit, Durable, InFlight
  <2>2. RuntimeInit => Settled /\ Trading
    BY DEF RuntimeInit, Init, Settled, Trading, OrderSteps
  <2> QED BY <2>1, <2>2, InitTyping, InitSubmission, InitClosure, InitUnsuspended, InitPlanned
          DEF RuntimeInit
<1>2. Inv /\ [RuntimeNext]_allVars => Inv'
  BY KernelStep, NextPlanned, NextTyping, NextDurable, NextSubmission, NextClosure,
     NextUnsuspended, NextInFlight, NextSettled, NextTrading
<1>3. Inv /\ [RuntimeNext]_allVars => [Opens]_allVars
  <2>1. ASSUME Inv, Submit PROVE Opens
    BY <2>1 DEF Submit, At, Trading, OrderSteps, Clear
  <2> QED BY <2>1, OnlySubmitPosts
<1> QED BY <1>1, <1>2, <1>3, PTL DEF RuntimeSpec, OpensOnlyWhenFlat

-----------------------------------------------------------------------------
(* When the inception bootstrap is evaluated.                              *)

\* The identity of the report that shows order k as it was closed.
FinalId(k, status) == <<"alpaca", k, status, order[k].filled>>

\* A report that calls its order closed is its last one.
Final(r) ==
  r.status \in Terminal => ClosedAs(r.key, r.status) /\ r.id = FinalId(r.key, r.status)

\* The ledger holds the last report of every order it calls closed, whatever status it has: a
\* quantity filled before a cancellation is there, though the replay does not count it.
Evidence ==
  /\ \A k \in Keys : ledger.status[k] \in Terminal =>
       /\ ClosedAs(k, ledger.status[k])
       /\ FinalId(k, ledger.status[k]) \in ledger.seen
  /\ pc \in {"record", "settle", "reconcile", "reconcile_settle"} => Final(report)
  /\ pc \in {"settle", "reconcile_settle"} => report.id \in ledger.seen

\* Steps that close no order and leave the exchange alone.
LEMMA QuietEvidence ==
  ASSUME Evidence, UNCHANGED order, ledger.seen \subseteq ledger'.seen,
         \A k \in Keys : ledger'.status[k] \in {ledger.status[k], "CREATED", "VALIDATED", "SUBMITTING"},
         pc' \in {"record", "settle", "reconcile", "reconcile_settle"} => Final(report)',
         pc' \in {"settle", "reconcile_settle"} => report'.id \in ledger'.seen
  PROVE  Evidence'
<1>1. ASSUME NEW k \in Keys, ledger'.status[k] \in Terminal
      PROVE  /\ ClosedAs(k, ledger.status[k])'
             /\ FinalId(k, ledger.status[k])' \in ledger'.seen
  <2>1. ledger'.status[k] = ledger.status[k]
    BY <1>1 DEF Terminal
  <2> QED BY <1>1, <2>1 DEF Evidence, ClosedAs, FinalId
<1> QED BY <1>1 DEF Evidence

LEMMA SnapshotFinal ==
  ASSUME Typing, NEW k \in Keys, order[k] # None
  PROVE  Final(Snapshot(k))
<1>1. /\ Snapshot(k).key = k /\ Snapshot(k).status = MapStatus(order[k].st)
      /\ Snapshot(k).id = <<"alpaca", k, MapStatus(order[k].st), order[k].filled>>
  BY DEF Snapshot
<1> QED BY <1>1 DEF Final, ClosedAs, FinalId

LEMMA RecordEvidence ==
  ASSUME Typing, Durable, Evidence, RecordSubmission \/ Reconcile
  PROVE  Evidence'
<1>1. mem = ledger /\ report \in Reports /\ order' = order /\ Final(report)
  BY DEF RecordSubmission, RecordReport, Reconcile, At, Durable, Typing, Situation, ReportSteps,
         venueVars, Evidence
<1>2. CASE pc' = "idle" /\ ledger' = ledger
  BY <1>1, <1>2, QuietEvidence
<1>3. CASE Record(report) /\ pc' \in {"settle", "reconcile_settle"} /\ report' = report
  <2>1. ledger'.status = ledger.status
    BY <1>1, <1>3, RecordKnown DEF Typing
  <2>2. ledger.seen \subseteq ledger'.seen /\ report.id \in ledger'.seen
    <3>1. CASE report.id \in ledger.seen
      BY <1>1, <1>3, <3>1 DEF Record
    <3>2. CASE report.id \notin ledger.seen
      <4>1. ledger' = HydratedReport(ledger, report)
        BY <1>1, <1>3, <3>2 DEF Record
      <4> QED BY <4>1 DEF HydratedReport, Typing, TypeOK, KernelStates
    <3> QED BY <3>1, <3>2
  <2>3. Final(report)'
    BY <1>1, <1>3 DEF Final, ClosedAs, FinalId
  <2> QED BY <1>1, <1>3, <2>1, <2>2, <2>3, QuietEvidence
<1> QED BY <1>2, <1>3 DEF RecordSubmission, RecordReport, Reconcile, FailSafe, Return, Goto

LEMMA SettleEvidence ==
  ASSUME Typing, Durable, Evidence, SettleSubmission \/ SettleReconciliation
  PROVE  Evidence'
<1> DEFINE to == Normalise(report.status)
<1>1. /\ pc \in {"settle", "reconcile_settle"} /\ pc' = "idle" /\ mem = ledger
      /\ report.key \in Keys /\ order' = order
      /\ \/ UNCHANGED ledger
         \/ ledger'.status = [ledger.status EXCEPT ![report.key] = to]
  BY SettleStatus DEF SettleSubmission, SettleReconciliation
<1>2. ledger'.seen = ledger.seen
  BY DEF SettleSubmission, SettleReconciliation, Settle, Transition, HydratedTransition, Typing,
         TypeOK, KernelStates
<1>3. to \in Terminal =>
        ClosedAs(report.key, to) /\ FinalId(report.key, to) \in ledger.seen
  BY <1>1 DEF Evidence, Final, Normalise, Terminal
<1> HIDE DEF to
<1>4. ASSUME NEW k \in Keys, ledger'.status[k] \in Terminal
      PROVE  ClosedAs(k, ledger'.status[k]) /\ FinalId(k, ledger'.status[k]) \in ledger.seen
  BY <1>1, <1>3, <1>4 DEF Evidence, Typing, TypeOK, KernelStates
<1>5. ASSUME NEW k \in Keys, ledger'.status[k] \in Terminal
      PROVE  ClosedAs(k, ledger.status[k])' /\ FinalId(k, ledger.status[k])' \in ledger'.seen
  BY <1>1, <1>2, <1>4, <1>5 DEF ClosedAs, FinalId
<1> QED BY <1>1, <1>5 DEF Evidence

LEMMA VenueEvidence ==
  ASSUME Typing, Unsuspended, Evidence, NEW j \in Keys, VenueMoves(j)
  PROVE  Evidence'
<1>1. VenueStep(j) /\ UNCHANGED <<pc, report, ledger>>
  BY DEF VenueMoves, kernelVars, processVars
<1>2. ASSUME NEW k \in Keys, NEW status \in Terminal, ClosedAs(k, status)
      PROVE  order'[k] = order[k]
  <2>1. order[k] # None /\ ~Live(k)
    BY <1>2, ClosedAsMapped DEF Live, LiveStates, DetourStates, ClosedStates
  <2>2. CASE j # k
    BY <1>1, <2>2, VenueTouches
  <2>3. CASE j = k
    <3>1. Arrive(k) \/ Vanish(k)
      BY <1>1, <2>1, <2>3, VenueMovesOrder DEF Fill, Shift
    <3> QED BY <2>1, <3>1 DEF Arrive, Vanish
  <2> QED BY <2>2, <2>3
<1>3. pc \in {"record", "settle", "reconcile", "reconcile_settle"} => report.key \in Keys
  BY DEF Typing, Situation, ReportSteps, Reports
<1>4. ASSUME pc \in {"record", "settle", "reconcile", "reconcile_settle"} PROVE Final(report)'
  BY <1>1, <1>2, <1>3, <1>4 DEF Evidence, Final, ClosedAs, FinalId
<1>5. ASSUME NEW k \in Keys, ledger.status[k] \in Terminal
      PROVE  ClosedAs(k, ledger.status[k])' /\ FinalId(k, ledger.status[k])' \in ledger'.seen
  BY <1>1, <1>2, <1>5 DEF Evidence, ClosedAs, FinalId
<1> QED BY <1>1, <1>4, <1>5 DEF Evidence

LEMMA HandlerStepEvidence ==
  ASSUME Typing, Durable, Evidence, HandlerStep
  PROVE  Evidence'
<1>1. CASE Decide
  <2>1. /\ pc' \in {"idle", "cancel", "create_intent"} /\ order' = order
        /\ \E approved \in BOOLEAN : ledger' = HydratedDecision(ledger, proposal.key, approved)
    BY <1>1 DEF Decide, Goto, AfterApproval, Return, venueVars
  <2>2. ledger'.status = ledger.status /\ ledger'.seen = ledger.seen
    BY <2>1 DEF HydratedDecision, Typing, TypeOK, KernelStates
  <2> QED BY <2>1, <2>2, QuietEvidence
<1>2. CASE CreateIntent
  <2> DEFINE i == DerivedIntent(mem, proposal)
  <2>1. /\ pc' = "validate" /\ order' = order
        /\ ledger' = HydratedTransition(HydratedIntent(ledger, i), i.key, "CREATED")
    BY <1>2 DEF CreateIntent, Goto, venueVars
  <2> HIDE DEF i
  <2>2. /\ ledger'.seen = ledger.seen
        /\ ledger'.status = [ledger.status EXCEPT ![i.key] = "CREATED"]
    BY <2>1 DEF HydratedTransition, HydratedIntent, Typing, TypeOK, KernelStates
  <2>3. \A k \in Keys : ledger'.status[k] \in {ledger.status[k], "CREATED"}
    BY <2>2 DEF Typing, TypeOK, KernelStates
  <2> QED BY <2>1, <2>2, <2>3, QuietEvidence
<1>3. ASSUME NEW from, NEW to \in {"VALIDATED", "SUBMITTING"},
             NEW next \in {"mark_submitting", "submit"}, Advance(from, to, next)
      PROVE  Evidence'
  <2>1. /\ pc' \in {"idle", "mark_submitting", "submit"} /\ order' = order
        /\ ledger' = ledger \/ ledger' = HydratedTransition(ledger, proposal.key, to)
    BY <1>3 DEF Advance, Transition, Goto, Return, venueVars
  <2>2. ledger'.seen = ledger.seen
    BY <2>1 DEF HydratedTransition, Typing, TypeOK, KernelStates
  <2>3. \A k \in Keys : ledger'.status[k] \in {ledger.status[k], to}
    BY <2>1 DEF HydratedTransition, Typing, TypeOK, KernelStates
  <2> QED BY <2>1, <2>2, <2>3, QuietEvidence
<1>4. CASE Submit
  <2>1. /\ pc = "submit" /\ mem = ledger /\ UNCHANGED <<order, ledger>>
        /\ proposal \in Proposals /\ proposal.key \in Keys
    BY <1>4, KernelAssumption
       DEF Submit, At, Durable, Typing, Situation, HandlerSteps, Steps, ProposalType
  <2>2. mem.intent[proposal.key].key \in Keys
    BY <2>1 DEF Typing, TypeOK, Situation, IntentSteps, KernelStates, Intents
  <2>3. \/ pc' = "posted"
        \/ /\ pc' = "record" /\ order[mem.intent[proposal.key].key] # None
           /\ report' = Snapshot(mem.intent[proposal.key].key)
    BY <1>4 DEF Submit, Goto
  <2>4. pc' = "record" => Final(report)'
    <3>1. pc' = "record" => Final(report')
      BY <2>2, <2>3, SnapshotFinal
    <3> QED BY <2>1, <3>1 DEF Final, ClosedAs, FinalId
  <2> QED BY <2>1, <2>3, <2>4, QuietEvidence
<1>5. CASE ReplyKnown
  <2>1. /\ pc = "posted" /\ pc' = "record" /\ UNCHANGED <<order, ledger>>
        /\ proposal.key \in Keys /\ order[proposal.key] # None /\ report' = Snapshot(proposal.key)
    BY <1>5, KernelAssumption
       DEF ReplyKnown, At, Goto, venueVars, Typing, Situation, HandlerSteps, Steps, ProposalType
  <2>2. Final(report')
    BY <2>1, SnapshotFinal
  <2>3. Final(report)'
    BY <2>1, <2>2 DEF Final, ClosedAs, FinalId
  <2> QED BY <2>1, <2>3, QuietEvidence
<1>6. CASE ReplyUnknown
  <2>1. pc' = "record" /\ UNCHANGED <<order, ledger>> /\ report'.status = "UNKNOWN"
    BY <1>6 DEF ReplyUnknown, Goto, venueVars, UnknownReport
  <2>2. Final(report)'
    BY <2>1 DEF Final, Terminal
  <2> QED BY <2>1, <2>2, QuietEvidence
<1>7. CASE SubmitRaises \/ ReplyRaises
  <2>1. pc' = "idle" /\ UNCHANGED <<order, ledger>>
    BY <1>7 DEF SubmitRaises, ReplyRaises, Raise, Return, venueVars
  <2> QED BY <2>1, QuietEvidence
<1>8. CASE Validate \/ MarkSubmitting
  BY <1>3, <1>8 DEF Validate, MarkSubmitting
<1> QED BY <1>1, <1>2, <1>4, <1>5, <1>6, <1>7, <1>8, RecordEvidence, SettleEvidence
        DEF HandlerStep

LEMMA NextEvidence ==
  ASSUME Typing, Durable, Unsuspended, Evidence, [RuntimeNext]_allVars
  PROVE  Evidence'
<1>1. ASSUME UNCHANGED <<order, ledger>>, pc' \in {"idle", "down"} PROVE Evidence'
  BY <1>1, QuietEvidence
<1>2. ASSUME NEW k \in Keys, LookUpPending(k) PROVE Evidence'
  <2>1. /\ pc' = "reconcile" /\ report' = Snapshot(k) /\ order[k] # None
        /\ UNCHANGED <<order, ledger>>
    BY <1>2 DEF LookUpPending, LookUp, Goto, venueVars
  <2>2. Final(report')
    BY <2>1, SnapshotFinal
  <2>3. Final(report)'
    BY <2>1, <2>2 DEF Final, ClosedAs, FinalId
  <2> QED BY <2>1, <2>3, QuietEvidence
<1>3. CASE HandleNext
  <2>1. /\ pc' \in {"idle", "evaluate"} /\ order' = order
        /\ ledger' = HydratedProposal(ledger, Head(plan))
    BY <1>3 DEF HandleNext, Receive, Raise, Return, Goto, venueVars
  <2>2. ledger'.status = ledger.status /\ ledger'.seen = ledger.seen
    BY <2>1 DEF HydratedProposal, Typing, TypeOK, KernelStates
  <2> QED BY <2>1, <2>2, QuietEvidence
<1>4. ASSUME End PROVE Evidence'
  BY <1>1, <1>4 DEF End, Stop, Goto, venueVars
<1>5. CASE \/ Launch \/ (\E k \in Keys : NotFound(k)) \/ FetchPositions \/ Guard \/ SkipCycle
           \/ BeginCycle \/ CompleteCycle \/ FinishBootstrap \/ Uncaught \/ Killed
  BY <1>1, <1>4, <1>5
     DEF Launch, Start, NotFound, FetchPositions, Guard, SkipCycle, BeginCycle, CompleteCycle,
         FinishBootstrap, Uncaught, Killed, Crash, InMain, Goto, vars, kernelVars, processVars,
         venueVars
<1>6. CASE NextBar \/ UNCHANGED allVars
  <2>1. UNCHANGED <<order, ledger, pc, report>>
    BY <1>6 DEF NextBar, allVars, vars, kernelVars, processVars, venueVars
  <2>2. Final(report)' <=> Final(report)
    BY <2>1 DEF Final, ClosedAs, FinalId
  <2> QED BY <2>1, <2>2, QuietEvidence DEF Evidence
<1> QED BY <1>2, <1>3, <1>5, <1>6, VenueEvidence, HandlerStepEvidence DEF RuntimeNext, RunStep

LEMMA NextFlat ==
  ASSUME Typing, Submission, Closure, Unsuspended, InFlight, Settled, Evidence,
         InceptionWhileFlat, [RuntimeNext]_allVars
  PROVE  InceptionWhileFlat'
<1>1. ASSUME phase' # "cycle" PROVE InceptionWhileFlat'
  BY <1>1 DEF InceptionWhileFlat
<1>2. CASE Guard
  <2>1. \/ phase' = "off"
        \/ /\ PendingOrders(ledger) = {} /\ (inception' => ~HasPositiveFill)
           /\ UNCHANGED <<order, ledger>>
    BY <1>2 DEF Guard, End, MustWait, BootstrapRequired, vars, kernelVars, venueVars
  <2>2. ASSUME PendingOrders(ledger) = {}, ~HasPositiveFill, NEW k \in Keys, order[k] # None
        PROVE  order[k].filled = 0
    <3>1. ledger.intent[k] # None /\ ledger.status[k] \in Terminal
      BY <2>2 DEF Submission, PendingOrders
    <3>2. FinalId(k, ledger.status[k]) \in ledger.seen
      BY <3>1 DEF Evidence
    <3>3. order[k].filled \in Nat
      BY <2>2 DEF Typing, TypeOK, VenueOrders
    <3>4. FinalId(k, ledger.status[k])[1] = "alpaca" /\ FinalId(k, ledger.status[k])[4] = order[k].filled
      BY DEF FinalId
    <3>5. ~(order[k].filled > 0)
      BY <2>2, <3>2, <3>4 DEF HasPositiveFill
    <3> QED BY <3>3, <3>5
  <2>3. CASE phase' = "off"
    BY <1>1, <2>3
  <2>4. CASE /\ PendingOrders(ledger) = {} /\ (inception' => ~HasPositiveFill)
             /\ UNCHANGED <<order, ledger>>
    BY <2>2, <2>4 DEF InceptionWhileFlat
  <2> QED BY <2>1, <2>3, <2>4
<1>3. ASSUME NEW k \in Keys, VenueMoves(k) PROVE InceptionWhileFlat'
  <2>1. wire[k] # None \/ Live(k)
    BY <1>3, VenueTouches DEF VenueMoves
  <2>2. PendingOrders(ledger) # {}
    BY <2>1, NothingPending DEF Quiet
  <2> QED BY <1>1, <1>3, <2>2 DEF Settled, VenueMoves, runtimeVars, runVars
<1>4. CASE HandlerStep
  <2>1. pc # "idle" /\ UNCHANGED phase
    BY <1>4
       DEF HandlerStep, Decide, CreateIntent, Validate, MarkSubmitting, Advance, SubmitRaises,
           Submit, ReplyKnown, ReplyUnknown, ReplyRaises, RecordSubmission, RecordReport,
           SettleSubmission, Settle, Reconcile, SettleReconciliation, At, runtimeVars, runVars
  <2> QED BY <1>1, <2>1 DEF Settled
<1>5. CASE \/ Launch \/ (\E k \in Keys : LookUpPending(k) \/ NotFound(k)) \/ FetchPositions
           \/ SkipCycle \/ BeginCycle \/ HandleNext \/ CompleteCycle \/ FinishBootstrap
           \/ Uncaught \/ Killed \/ NextBar
  BY <1>1, <1>5
     DEF Launch, LookUpPending, NotFound, FetchPositions, SkipCycle, BeginCycle, HandleNext,
         CompleteCycle, FinishBootstrap, Uncaught, Killed, NextBar, InMain, End, runVars
<1>6. CASE UNCHANGED allVars
  BY <1>6 DEF InceptionWhileFlat, allVars, vars, venueVars, runtimeVars, runVars
<1> QED BY <1>2, <1>3, <1>4, <1>5, <1>6 DEF RuntimeNext, RunStep

\* The bootstrap is evaluated only while no order ever got a fill, over failed attempts,
\* retirements, kills and cancellations (_inception_bootstrap_required, _has_positive_fill).
THEOREM InceptionFlat ==
  ASSUME NeverSuspends
  PROVE  RuntimeSpec => []InceptionWhileFlat
<1> DEFINE Inv == /\ Typing /\ Durable /\ Submission /\ Closure /\ Unsuspended
                  /\ Planned /\ InFlight /\ Settled /\ Evidence /\ InceptionWhileFlat
<1>1. RuntimeInit => Inv
  <2>1. Init => Durable /\ InFlight
    BY DEF Init, VenueInit, Durable, InFlight
  <2>2. RuntimeInit => Settled /\ InceptionWhileFlat
    BY DEF RuntimeInit, Settled, InceptionWhileFlat
  <2>3. Init => Evidence
    BY DEF Init, EmptyState, Evidence, Terminal
  <2> QED BY <2>1, <2>2, <2>3, InitTyping, InitSubmission, InitClosure, InitUnsuspended,
             InitPlanned
          DEF RuntimeInit
<1>2. Inv /\ [RuntimeNext]_allVars => Inv'
  BY KernelStep, NextPlanned, NextTyping, NextDurable, NextSubmission, NextClosure,
     NextUnsuspended, NextInFlight, NextSettled, NextEvidence, NextFlat
<1> QED BY <1>1, <1>2, PTL DEF RuntimeSpec

-----------------------------------------------------------------------------
(* What is known of every run, and what its steps can touch.               *)

Base ==
  /\ Typing /\ Durable /\ Submission /\ Closure /\ Unsuspended
  /\ Planned /\ InFlight /\ Settled /\ Trading /\ Evidence

LEMMA RuntimeBase ==
  ASSUME NeverSuspends
  PROVE  RuntimeSpec => []Base
<1>1. RuntimeInit => Base
  <2>1. Init => Durable /\ InFlight /\ Evidence
    BY DEF Init, VenueInit, EmptyState, Durable, InFlight, Evidence, Terminal
  <2>2. RuntimeInit => Settled /\ Trading
    BY DEF RuntimeInit, Init, Settled, Trading, OrderSteps
  <2> QED BY <2>1, <2>2, InitTyping, InitSubmission, InitClosure, InitUnsuspended, InitPlanned
          DEF RuntimeInit, Base
<1>2. Base /\ [RuntimeNext]_allVars => Base'
  BY KernelStep, NextPlanned, NextTyping, NextDurable, NextSubmission, NextClosure,
     NextUnsuspended, NextInFlight, NextSettled, NextTrading, NextEvidence DEF Base
<1> QED BY <1>1, <1>2, PTL DEF RuntimeSpec

\* The exchange moves by itself; of the runtime's own steps only a submission touches it.
LEMMA VenueFrame ==
  ASSUME [RuntimeNext]_allVars
  PROVE  \/ \E k \in Keys : VenueMoves(k)
         \/ Submit /\ UNCHANGED ledger
         \/ UNCHANGED venueVars
<1>1. ASSUME End PROVE UNCHANGED venueVars
  BY <1>1 DEF End, Stop
<1>2. CASE HandlerStep
  BY <1>2
     DEF HandlerStep, Decide, CreateIntent, Validate, MarkSubmitting, Advance, SubmitRaises,
         Submit, ReplyKnown, ReplyUnknown, ReplyRaises, RecordSubmission, RecordReport,
         SettleSubmission, Settle, Reconcile, SettleReconciliation
<1>3. CASE \/ Launch \/ (\E k \in Keys : LookUpPending(k) \/ NotFound(k)) \/ FetchPositions
           \/ Guard \/ SkipCycle \/ BeginCycle \/ HandleNext \/ CompleteCycle \/ FinishBootstrap
           \/ Uncaught \/ Killed \/ NextBar \/ UNCHANGED allVars
  BY <1>1, <1>3
     DEF Launch, Start, LookUpPending, LookUp, NotFound, FetchPositions, Guard, SkipCycle,
         BeginCycle, HandleNext, Receive, CompleteCycle, FinishBootstrap, Uncaught, Killed,
         Crash, NextBar, allVars, vars
<1> QED BY <1>2, <1>3 DEF RuntimeNext, RunStep

-----------------------------------------------------------------------------
(* No short position.                                                      *)

\* The order for k is in symbol s and can still be filled.
Works(k, s) ==
  \/ wire[k] # None /\ wire[k].symbol = s
  \/ Live(k) /\ order[k].symbol = s

\* A symbol has one such order at a time, and what it may still sell is held.
Covered ==
  /\ \A j, k \in Keys : \A s \in Symbols : Works(j, s) /\ Works(k, s) => j = k
  /\ \A k \in Keys :
       /\ wire[k] # None /\ wire[k].side = "SELL" => wire[k].qty <= shares[wire[k].symbol]
       /\ Live(k) => /\ order[k].filled < order[k].size
                     /\ order[k].side = "SELL" =>
                          order[k].size - order[k].filled <= shares[order[k].symbol]

LEMMA VenueCovered ==
  ASSUME Typing, InFlight, Covered, NeverShort, NEW k \in Keys, VenueStep(k)
  PROVE  Covered' /\ NeverShort'
<1>1. \A j \in Keys \ {k} : wire'[j] = wire[j] /\ order'[j] = order[j]
  BY VenueTouches
<1>2. \A j \in Keys \ {k} : \A s : Works(j, s)' <=> Works(j, s)
  BY <1>1 DEF Works, Live
<1>3. CASE Arrive(k)
  <2>1. /\ wire[k] \in Intents /\ wire'[k] = None /\ shares' = shares
        /\ order'[k] = [st |-> "new", symbol |-> wire[k].symbol, side |-> wire[k].side,
                        size |-> wire[k].qty, filled |-> 0, gross |-> 0, resumed |-> FALSE]
    BY <1>3 DEF Arrive, Typing, TypeOK
  <2>2. \A s : Works(k, s)' => Works(k, s)
    BY <1>3, <2>1 DEF Works, Live, Arrive
  <2> QED BY <1>1, <1>2, <1>3, <2>1, <2>2 DEF Covered, NeverShort, Arrive, Live, Intents
<1>4. CASE Vanish(k)
  <2>1. wire'[k] = None /\ shares' = shares /\ order' = order
    BY <1>4 DEF Vanish, Typing, TypeOK
  <2>2. \A s : Works(k, s)' => Works(k, s)
    BY <2>1 DEF Works, Live
  <2> QED BY <1>1, <1>2, <2>1, <2>2 DEF Covered, NeverShort, Live
<1>5. ASSUME NEW px \in FillPrices, Fill(k, px) PROVE Covered' /\ NeverShort'
  <2> DEFINE o == order[k]
             sign == IF o.side = "BUY" THEN 1 ELSE -1
  <2>1. /\ o \in VenueOrders /\ Live(k) /\ wire' = wire /\ wire[k] = None
        /\ shares' = [shares EXCEPT ![o.symbol] = @ + sign]
    BY <1>5 DEF Fill, Live, InFlight, Typing, TypeOK
  <2>2. /\ order'[k].symbol = o.symbol /\ order'[k].side = o.side /\ order'[k].size = o.size
        /\ order'[k].filled = o.filled + 1
        /\ Live(k)' => o.filled + 1 # o.size
    BY <1>5, <2>1, VenueFill DEF Live, LiveStates, DetourStates
  <2>3. \A s : Works(k, s)' => Works(k, s)
    BY <2>1, <2>2 DEF Works
  <2>4. Works(k, o.symbol) /\ o.symbol \in Symbols /\ shares[o.symbol] \in Int
    BY <2>1 DEF Works, VenueOrders, Typing, TypeOK
  <2>5. /\ shares'[o.symbol] = shares[o.symbol] + sign
        /\ \A s \in Symbols \ {o.symbol} : shares'[s] = shares[s]
    BY <2>1, <2>4 DEF Typing, TypeOK
  <2>6. o.side = "SELL" => o.size - o.filled <= shares[o.symbol]
    BY <2>1 DEF Covered
  <2>7. o.filled < o.size /\ o.filled \in Nat /\ o.size \in Nat
    BY <2>1 DEF Covered, VenueOrders
  <2>8. shares'[o.symbol] >= 0
    BY <2>1, <2>4, <2>5, <2>6, <2>7 DEF NeverShort, VenueOrders, OrderSide
  <2>9. NeverShort'
    BY <2>5, <2>8 DEF NeverShort
  <2>10. ASSUME NEW j \in Keys \ {k}, NEW s \in Symbols, Works(j, s) PROVE shares'[s] = shares[s]
    BY <2>4, <2>5, <2>10 DEF Covered
  <2>11. ASSUME NEW j \in Keys
         PROVE  /\ wire'[j] # None /\ wire'[j].side = "SELL" => wire'[j].qty <= shares'[wire'[j].symbol]
                /\ Live(j)' => /\ order'[j].filled < order'[j].size
                               /\ order'[j].side = "SELL" =>
                                    order'[j].size - order'[j].filled <= shares'[order'[j].symbol]
    <3>1. CASE j = k
      <4>1. Live(k)' => o.filled + 1 < o.size
        BY <2>2, <2>7
      <4>2. o.side = "SELL" => sign = -1
        OBVIOUS
      <4> HIDE DEF sign, o
      <4> QED BY <3>1, <2>1, <2>2, <2>4, <2>5, <2>6, <2>7, <4>1, <4>2
    <3>2. CASE j # k
      <4>1. wire'[j] # None => wire'[j] = wire[j] /\ wire[j] \in Intents /\ Works(j, wire[j].symbol)
        BY <1>1, <3>2 DEF Works, Typing, TypeOK
      <4>2. Live(j)' => /\ order'[j] = order[j] /\ Live(j) /\ order[j] \in VenueOrders
                        /\ Works(j, order[j].symbol)
        BY <1>1, <3>2 DEF Works, Live, Typing, TypeOK
      <4> QED BY <3>2, <4>1, <4>2, <2>10 DEF Covered, Intents, VenueOrders
    <3> QED BY <3>1, <3>2
  <2> QED BY <1>2, <2>3, <2>9, <2>11 DEF Covered
<1>6. ASSUME NEW st, Shift(k, st) PROVE Covered' /\ NeverShort'
  <2>1. /\ Live(k) /\ wire' = wire /\ shares' = shares
        /\ order'[k].symbol = order[k].symbol /\ order'[k].side = order[k].side
        /\ order'[k].size = order[k].size /\ order'[k].filled = order[k].filled
    BY <1>6, VenueShift
  <2>2. \A s : Works(k, s)' => Works(k, s)
    BY <2>1 DEF Works
  <2>3. \A j \in Keys : Live(j)' => Live(j)
    BY <1>1, <2>1 DEF Live
  <2>4. \A j \in Keys : /\ order'[j].symbol = order[j].symbol /\ order'[j].side = order[j].side
                        /\ order'[j].size = order[j].size /\ order'[j].filled = order[j].filled
    BY <1>1, <2>1
  <2> QED BY <1>2, <2>1, <2>2, <2>3, <2>4 DEF Covered, NeverShort
<1> QED BY <1>3, <1>4, <1>5, <1>6, VenueMovesOrder

\* An order sent in a symbol without one.
LEMMA PostCovered ==
  ASSUME Typing, Covered, NeverShort, NEW i \in Intents, NothingOpen(i.symbol),
         order[i.key] = None, HeldAtBroker(i), wire' = [wire EXCEPT ![i.key] = i],
         order' = order, shares' = shares
  PROVE  Covered' /\ NeverShort'
<1>1. i.key \in Keys /\ wire'[i.key] = i /\ \A j \in Keys \ {i.key} : wire'[j] = wire[j]
  BY DEF Typing, TypeOK, Intents
<1>2. \A j \in Keys \ {i.key} : \A s : Works(j, s)' <=> Works(j, s)
  BY <1>1 DEF Works, Live
<1>3. \A s : Works(i.key, s)' => s = i.symbol
  BY <1>1 DEF Works, Live
<1>4. \A j \in Keys : ~Works(j, i.symbol)
  BY DEF NothingOpen, Works
<1>5. i.side = "SELL" => i.qty <= shares[i.symbol]
  BY DEF HeldAtBroker, Intents, Typing, TypeOK
<1>6. ASSUME NEW j \in Keys, NEW k \in Keys, NEW s \in Symbols, Works(j, s)', Works(k, s)'
      PROVE  j = k
  BY <1>2, <1>3, <1>4, <1>6 DEF Covered
<1> QED BY <1>1, <1>5, <1>6 DEF Covered, NeverShort, Live

LEMMA SubmitCovered ==
  ASSUME Typing, Submission, Durable, Trading, Covered, NeverShort, Submit
  PROVE  Covered' /\ NeverShort'
<1>1. /\ pc = "submit" /\ mem = ledger /\ order' = order /\ shares' = shares
      /\ proposal.key \in Keys
  BY KernelAssumption
     DEF Submit, At, Durable, Typing, Situation, HandlerSteps, Steps, ProposalType
<1>2. PICK i \in Intents : i = mem.intent[proposal.key]
  BY <1>1 DEF Typing, TypeOK, Situation, IntentSteps, KernelStates
<1>3. i.key = proposal.key /\ i.symbol = proposal.symbol
  BY <1>1, <1>2, NoneAssumption DEF Submission, Trading
<1>4. \/ wire' = wire
      \/ order[i.key] = None /\ HeldAtBroker(i) /\ wire' = [wire EXCEPT ![i.key] = i]
  BY <1>2 DEF Submit
<1>5. NothingOpen(i.symbol)
  BY <1>1, <1>3 DEF Trading, OrderSteps, Clear
<1>6. CASE wire' = wire
  BY <1>1, <1>6 DEF Covered, NeverShort, Works, Live
<1> QED BY <1>1, <1>4, <1>5, <1>6, PostCovered

LEMMA NextCovered ==
  ASSUME Base, Covered, NeverShort, [RuntimeNext]_allVars
  PROVE  (Covered /\ NeverShort)'
<1>1. ASSUME UNCHANGED venueVars PROVE Covered' /\ NeverShort'
  BY <1>1 DEF venueVars, Covered, Works, Live, NeverShort
<1> QED BY <1>1, VenueFrame, VenueCovered, SubmitCovered DEF Base, VenueMoves

\* However sales are partly filled, lost, killed in between and decided again, the exchange
\* never ends up with less than nothing of a symbol (AlpacaPaperBroker.submit, main).
THEOREM Long ==
  ASSUME NeverSuspends
  PROVE  RuntimeSpec => []NeverShort
<1>1. RuntimeInit => Covered /\ NeverShort
  BY DEF RuntimeInit, Init, VenueInit, Covered, Works, Live, NeverShort
<1>2. Base /\ Covered /\ NeverShort /\ [RuntimeNext]_allVars => (Covered /\ NeverShort)'
  BY NextCovered
<1> QED BY <1>1, <1>2, RuntimeBase, PTL DEF RuntimeSpec

-----------------------------------------------------------------------------
(* The book.                                                               *)

\* No order in s is pending in the ledger.
Free(s) == \A k \in PendingOrders(ledger) : ledger.intent[k].symbol # s

\* What the book has of an order is part of what the exchange filled of it, free of charge.
Reported ==
  \A k \in Keys :
    /\ ledger.book.fee[k] = 0
    /\ order[k] = None => ledger.book.qty[k] = 0 /\ ledger.book.gross[k] = 0
    /\ order[k] # None => /\ order[k].symbol = ledger.intent[k].symbol
                          /\ order[k].filled <= order[k].size
                          /\ ledger.book.qty[k] <= order[k].filled
                          /\ ledger.book.gross[k] <= order[k].gross

\* The exchange has filled order k, and the book has it at quantity q for g.
FilledAt(k, q, g) ==
  order[k] # None /\ order[k].st = "filled" /\ q = order[k].filled /\ g = order[k].gross

\* Once the report of a complete fill is recorded the book has all of it.
AllSeen ==
  \A k \in Keys : \A n \in Nat :
    <<"alpaca", k, "FILLED", n>> \in ledger.seen =>
      FilledAt(k, ledger.book.qty[k], ledger.book.gross[k])

\* Report r, not yet recorded, was taken from the order it is about after everything the book has
\* of that order; or it tells nothing.
Genuine(r) ==
  /\ r.key \in PendingOrders(ledger)
  /\ r.currency = AccountCurrency /\ r.fee = 0
  /\ \/ r.order = None /\ ~IsFill(r) /\ r.id[1] # "alpaca"
     \/ /\ r.order = r.key /\ order[r.key] # None
        /\ r.id = <<"alpaca", r.key, r.status, r.qty>>
        /\ r.symbol = order[r.key].symbol /\ r.side = order[r.key].side
        /\ ledger.book.qty[r.key] <= r.qty /\ r.qty <= order[r.key].filled
        /\ ledger.book.gross[r.key] <= r.gross /\ r.gross <= order[r.key].gross
        /\ r.status = "FILLED" => FilledAt(r.key, r.qty, r.gross)

InHand ==
  /\ pc \in {"record", "reconcile"} => Genuine(report)
  /\ pc \in {"settle", "reconcile_settle"} => report.key \in PendingOrders(ledger)

\* The replay has not raised.
Unbroken == ~ledger.book.broken

\* A symbol has one pending order at a time, and what the book lacks of a sale it can still take.
OneEach ==
  \A j, k \in PendingOrders(ledger) : ledger.intent[j].symbol = ledger.intent[k].symbol => j = k

Sellable ==
  \A k \in PendingOrders(ledger) :
    ledger.intent[k].side = "SELL" =>
      ledger.intent[k].qty - ledger.book.qty[k] <= ledger.book.pos[ledger.intent[k].symbol]

\* The proposal being worked on is the only order of its symbol, and a sale was approved for
\* no more than the book shows.
OnOrder ==
  /\ pc \in {"evaluate", "create_intent"} => Free(proposal.symbol)
  /\ pc = "create_intent" =>
       ~ExceedsPosition(DerivedIntent(ledger, proposal), ledger.book.pos[proposal.symbol])
  /\ pc \in {"validate", "mark_submitting", "submit", "posted"} =>
       proposal.key \in PendingOrders(ledger)

\* So are the proposals of the cycle that are still to come.
Ahead == phase = "trade" => \A n \in DOMAIN plan : Free(plan[n].symbol)

Account ==
  /\ Reported /\ AllSeen /\ InHand
  /\ Unbroken /\ OneEach /\ Sellable /\ OnOrder /\ Ahead

\* One iteration of the replay that refuses nothing.
LEMMA Applied ==
  ASSUME NEW b \in Books, NEW r \in Reports, ~b.broken, r.currency = AccountCurrency,
         IsFill(r) => /\ r.order \in Keys /\ ~Regressed(b, r)
                      /\ ~WouldGoShort(b, r, Delta(b.qty[r.order], r.qty)),
         NEW c, c = ApplyReport(b, r)
  PROVE  /\ ~c.broken
         /\ ~IsFill(r) => c = b
         /\ IsFill(r) => /\ c.qty = [b.qty EXCEPT ![r.order] = r.qty]
                         /\ c.gross = [b.gross EXCEPT ![r.order] = r.gross]
                         /\ c.fee = [b.fee EXCEPT ![r.order] = r.fee]
                         /\ \A s \in Symbols \ {r.symbol} : c.pos[s] = b.pos[s]
                         /\ r.side = "BUY" =>
                              c.pos[r.symbol] = b.pos[r.symbol] + (r.qty - b.qty[r.order])
                         /\ r.side = "SELL" =>
                              c.pos[r.symbol] = b.pos[r.symbol] - (r.qty - b.qty[r.order])
<1>1. CASE ~IsFill(r)
  BY <1>1 DEF ApplyReport
<1>2. CASE IsFill(r)
  <2> DEFINE sign == IF r.side = "BUY" THEN 1 ELSE -1
             moved == r.qty - b.qty[r.order]
  <2>1. c = WithFill(b, r)
    BY <1>2 DEF ApplyReport
  <2>2. /\ c.qty = [b.qty EXCEPT ![r.order] = r.qty]
        /\ c.gross = [b.gross EXCEPT ![r.order] = r.gross]
        /\ c.fee = [b.fee EXCEPT ![r.order] = r.fee]
        /\ c.pos = [b.pos EXCEPT ![r.symbol] = @ + sign * moved]
        /\ ~c.broken
    BY <2>1 DEF WithFill, Delta
  <2>3. /\ moved \in Int /\ r.symbol \in Symbols /\ b.pos \in [Symbols -> Nat]
        /\ r.side \in {"BUY", "SELL"}
    BY <1>2 DEF Books, Reports, OrderSide
  <2>4. r.side = "BUY" => sign * moved = moved
    BY <2>3
  <2>5. r.side = "SELL" => sign * moved = -moved
    BY <2>3
  <2>6. c.pos[r.symbol] = b.pos[r.symbol] + sign * moved
    BY <2>2, <2>3
  <2>7. \A s \in Symbols \ {r.symbol} : c.pos[s] = b.pos[s]
    BY <2>2, <2>3
  <2> HIDE DEF sign, moved
  <2>8. b.pos[r.symbol] \in Int
    BY <2>3
  <2>9. /\ r.side = "BUY" => c.pos[r.symbol] = b.pos[r.symbol] + moved
        /\ r.side = "SELL" => c.pos[r.symbol] = b.pos[r.symbol] - moved
    BY <2>3, <2>4, <2>5, <2>6, <2>8
  <2> QED BY <1>2, <2>2, <2>7, <2>9 DEF moved
<1> QED BY <1>1, <1>2

\* Steps that leave book, intents and exchange alone and make no order pending.
LEMMA QuietAccount ==
  ASSUME Account, order' = order, ledger'.book = ledger.book, ledger'.seen = ledger.seen,
         ledger'.intent = ledger.intent, PendingOrders(ledger') \subseteq PendingOrders(ledger),
         InHand', OnOrder', Ahead'
  PROVE  Account'
<1>1. Reported' /\ AllSeen' /\ Unbroken'
  BY DEF Account, Reported, AllSeen, FilledAt, Unbroken
<1>2. OneEach' /\ Sellable'
  BY DEF Account, OneEach, Sellable
<1> QED BY <1>1, <1>2 DEF Account

\* What the exchange shows of a pending order can be recorded.
LEMMA SnapshotGenuine ==
  ASSUME Typing, Reported, NEW k \in PendingOrders(ledger), order[k] # None
  PROVE  Genuine(Snapshot(k))
<1>1. k \in Keys
  BY DEF PendingOrders
<1>2. order[k] \in VenueOrders
  BY <1>1 DEF Typing, TypeOK
<1>3. MapStatus(order[k].st) = "FILLED" => order[k].st = "filled"
  BY DEF MapStatus
<1>4. /\ Snapshot(k).key = k /\ Snapshot(k).order = k
      /\ Snapshot(k).id = <<"alpaca", k, MapStatus(order[k].st), order[k].filled>>
      /\ Snapshot(k).status = MapStatus(order[k].st)
      /\ Snapshot(k).symbol = order[k].symbol /\ Snapshot(k).side = order[k].side
      /\ Snapshot(k).qty = order[k].filled /\ Snapshot(k).gross = order[k].gross
      /\ Snapshot(k).fee = 0 /\ Snapshot(k).currency = AccountCurrency
  BY DEF Snapshot
<1>5. order[k].filled \in Nat /\ order[k].gross \in Nat
  BY <1>2 DEF VenueOrders
<1> QED BY <1>1, <1>3, <1>4, <1>5 DEF Genuine, Reported, FilledAt

\* A fill recorded for the first time moves the order's figures to those reported, and the position
\* by what they moved.
LEMMA RecordedFill ==
  ASSUME Typing, Submission, Account, NEW r \in Reports, Genuine(r), IsFill(r),
         NEW c, c = ApplyReport(ledger.book, r)
  PROVE  LET k == r.key
             o == order[k]
             b == ledger.book
         IN  /\ k \in Keys /\ r.order = k /\ o # None /\ o \in VenueOrders
             /\ r.id = <<"alpaca", k, r.status, r.qty>>
             /\ b.qty[k] <= r.qty /\ r.qty <= o.filled
             /\ b.gross[k] <= r.gross /\ r.gross <= o.gross
             /\ o.symbol = ledger.intent[k].symbol /\ o.side = ledger.intent[k].side
             /\ o.size = ledger.intent[k].qty /\ o.filled <= o.size
             /\ ~c.broken
             /\ c.qty[k] = r.qty /\ c.gross[k] = r.gross /\ c.fee[k] = 0
             /\ \A j \in Keys \ {k} : /\ c.qty[j] = b.qty[j] /\ c.gross[j] = b.gross[j]
                                      /\ c.fee[j] = b.fee[j]
             /\ \A s \in Symbols \ {o.symbol} : c.pos[s] = b.pos[s]
             /\ o.side = "BUY"  => c.pos[o.symbol] = b.pos[o.symbol] + (r.qty - b.qty[k])
             /\ o.side = "SELL" => c.pos[o.symbol] = b.pos[o.symbol] - (r.qty - b.qty[k])
<1> DEFINE k == r.key
           o == order[k]
           b == ledger.book
<1>1. b \in Books /\ k \in Keys /\ k \in PendingOrders(ledger)
  BY DEF Typing, TypeOK, KernelStates, Reports, Genuine
<1>2. /\ r.order = k /\ o # None /\ o \in VenueOrders
      /\ r.id = <<"alpaca", k, r.status, r.qty>>
      /\ r.symbol = o.symbol /\ r.side = o.side
      /\ b.qty[k] <= r.qty /\ r.qty <= o.filled
      /\ b.gross[k] <= r.gross /\ r.gross <= o.gross
      /\ r.currency = AccountCurrency /\ r.fee = 0
  BY <1>1, NoneAssumption DEF Genuine, Typing, TypeOK
<1>3. /\ o.symbol = ledger.intent[k].symbol /\ o.side = ledger.intent[k].side
      /\ o.size = ledger.intent[k].qty /\ o.filled <= o.size
      /\ b.fee[k] = 0 /\ ~b.broken
  BY <1>1, <1>2 DEF Account, Reported, Unbroken, Submission, AsRecorded
<1>4. /\ o.filled \in Nat /\ o.size \in Nat /\ o.gross \in Nat /\ r.qty \in Nat
      /\ r.gross \in Nat /\ o.symbol \in Symbols /\ o.side \in {"BUY", "SELL"}
      /\ b.qty[k] \in Nat /\ b.gross[k] \in Nat /\ b.pos[o.symbol] \in Nat
      /\ b.qty \in [Keys -> Nat] /\ b.gross \in [Keys -> Nat] /\ b.fee \in [Keys -> Nat]
  BY <1>1, <1>2 DEF VenueOrders, Reports, OrderSide, Books
<1>5. o.side = "SELL" => o.size - b.qty[k] <= b.pos[o.symbol]
  BY <1>1, <1>3 DEF Account, Sellable
<1> HIDE DEF o, b, k
<1>6. ~Regressed(b, r) /\ ~WouldGoShort(b, r, Delta(b.qty[r.order], r.qty))
  BY <1>2, <1>3, <1>4, <1>5 DEF Regressed, WouldGoShort, Delta
<1>7. /\ ~c.broken
      /\ c.qty = [b.qty EXCEPT ![k] = r.qty]
      /\ c.gross = [b.gross EXCEPT ![k] = r.gross]
      /\ c.fee = [b.fee EXCEPT ![k] = r.fee]
      /\ \A s \in Symbols \ {o.symbol} : c.pos[s] = b.pos[s]
      /\ o.side = "BUY"  => c.pos[o.symbol] = b.pos[o.symbol] + (r.qty - b.qty[k])
      /\ o.side = "SELL" => c.pos[o.symbol] = b.pos[o.symbol] - (r.qty - b.qty[k])
  <2>1. c = ApplyReport(b, r)
    BY DEF b
  <2> QED BY <1>1, <1>2, <1>3, <1>6, <2>1, Applied
<1>8. /\ c.qty[k] = r.qty /\ c.gross[k] = r.gross /\ c.fee[k] = 0
      /\ \A j \in Keys \ {k} : /\ c.qty[j] = b.qty[j] /\ c.gross[j] = b.gross[j]
                               /\ c.fee[j] = b.fee[j]
  BY <1>1, <1>2, <1>4, <1>7
<1> QED BY <1>1, <1>2, <1>3, <1>7, <1>8 DEF o, b, k

LEMMA RecordAccount ==
  ASSUME Typing, Submission, Durable, Account, pc \in {"record", "reconcile"}, Record(report),
         pc' \in {"settle", "reconcile_settle"},
         UNCHANGED <<report, proposal, phase, plan, order>>
  PROVE  Account'
<1>1. mem = ledger /\ Genuine(report) /\ report \in Reports
  BY DEF Durable, Typing, Situation, ReportSteps, Account, InHand
<1>2. PICK r \in Reports : r = report
  BY <1>1
<1> DEFINE k == r.key
           b == ledger.book
           c == ledger'.book
<1>3. b \in Books /\ k \in Keys /\ k \in PendingOrders(ledger) /\ Genuine(r)
  BY <1>1, <1>2 DEF Typing, TypeOK, KernelStates, Reports, Genuine
<1>4. /\ ledger'.intent = ledger.intent /\ ledger'.status = ledger.status
      /\ PendingOrders(ledger') = PendingOrders(ledger)
  BY <1>1, RecordKnown DEF Typing, PendingOrders
<1>5. InHand' /\ OnOrder' /\ Ahead'
  BY <1>2, <1>3, <1>4 DEF InHand, OnOrder, Ahead, Account, Free
<1>6. CASE r.id \in ledger.seen
  <2>1. ledger' = ledger
    BY <1>1, <1>2, <1>6 DEF Record
  <2> QED BY <1>5, <2>1, QuietAccount
<1>7. CASE r.id \notin ledger.seen
  <2>1. ledger'.seen = ledger.seen \cup {r.id} /\ c = ApplyReport(b, r)
    BY <1>1, <1>2, <1>7 DEF Record, HydratedReport, Typing, TypeOK, KernelStates
  <2>2. CASE ~IsFill(r)
    <3>1. c = b
      BY <2>1, <2>2, <1>3 DEF ApplyReport, Genuine, Account, Unbroken
    <3>2. ASSUME NEW j \in Keys, NEW n \in Nat PROVE <<"alpaca", j, "FILLED", n>> # r.id
      BY <1>3, <2>2 DEF Genuine, IsFill, FillStates
    <3>3. Reported' /\ AllSeen' /\ Unbroken'
      BY <2>1, <3>1, <3>2, <1>4 DEF Account, Reported, AllSeen, FilledAt, Unbroken
    <3>4. OneEach' /\ Sellable'
      BY <1>4, <3>1 DEF Account, OneEach, Sellable
    <3> QED BY <1>5, <3>3, <3>4 DEF Account
  <2>3. CASE IsFill(r)
    <3> DEFINE o == order[k]
    <3>1. /\ o # None /\ o \in VenueOrders /\ r.id = <<"alpaca", k, r.status, r.qty>>
          /\ b.qty[k] <= r.qty /\ r.qty <= o.filled
          /\ b.gross[k] <= r.gross /\ r.gross <= o.gross
          /\ o.symbol = ledger.intent[k].symbol /\ o.side = ledger.intent[k].side
          /\ o.size = ledger.intent[k].qty /\ o.filled <= o.size
          /\ ~c.broken
          /\ c.qty[k] = r.qty /\ c.gross[k] = r.gross /\ c.fee[k] = 0
          /\ \A j \in Keys \ {k} : /\ c.qty[j] = b.qty[j] /\ c.gross[j] = b.gross[j]
                                   /\ c.fee[j] = b.fee[j]
          /\ \A s \in Symbols \ {o.symbol} : c.pos[s] = b.pos[s]
          /\ o.side = "SELL" => c.pos[o.symbol] = b.pos[o.symbol] - (r.qty - b.qty[k])
      BY <1>3, <2>1, <2>3, RecordedFill
    <3>2. /\ o.filled \in Nat /\ o.size \in Nat /\ o.gross \in Nat /\ r.qty \in Nat
          /\ r.gross \in Nat /\ o.symbol \in Symbols
          /\ b.qty[k] \in Nat /\ b.gross[k] \in Nat /\ b.pos[o.symbol] \in Nat
      BY <1>3, <3>1 DEF VenueOrders, Reports, Books
    <3>3. r.status = "FILLED" => FilledAt(k, r.qty, r.gross)
      BY <1>3, <2>3, NoneAssumption DEF Genuine
    <3> HIDE DEF o, b, c, k
    <3>4. Reported'
      <4>1. ASSUME NEW j \in Keys
            PROVE  /\ c.fee[j] = 0
                   /\ order[j] = None => c.qty[j] = 0 /\ c.gross[j] = 0
                   /\ order[j] # None => /\ order[j].symbol = ledger.intent[j].symbol
                                         /\ order[j].filled <= order[j].size
                                         /\ c.qty[j] <= order[j].filled
                                         /\ c.gross[j] <= order[j].gross
        <5>1. CASE j = k
          BY <5>1, <3>1 DEF o
        <5>2. CASE j # k
          BY <5>2, <3>1 DEF Account, Reported, b
        <5> QED BY <5>1, <5>2
      <4> QED BY <1>4, <4>1 DEF Reported, c
    <3>5. AllSeen'
      <4>1. ASSUME NEW j \in Keys, NEW n \in Nat, <<"alpaca", j, "FILLED", n>> \in ledger'.seen
            PROVE  FilledAt(j, c.qty[j], c.gross[j])
        <5>1. CASE j # k
          <6>1. <<"alpaca", j, "FILLED", n>> \in ledger.seen
            BY <2>1, <3>1, <4>1, <5>1
          <6> QED BY <3>1, <5>1, <6>1 DEF Account, AllSeen, b
        <5>2. CASE j = k /\ <<"alpaca", j, "FILLED", n>> \in ledger.seen
          <6>1. FilledAt(k, b.qty[k], b.gross[k])
            BY <5>2 DEF Account, AllSeen, b
          <6> QED BY <3>1, <3>2, <5>2, <6>1 DEF FilledAt, o
        <5>3. CASE j = k /\ <<"alpaca", j, "FILLED", n>> \notin ledger.seen
          <6>1. r.status = "FILLED"
            BY <2>1, <3>1, <4>1, <5>3
          <6> QED BY <3>1, <3>3, <5>3, <6>1
        <5> QED BY <5>1, <5>2, <5>3
      <4> QED BY <4>1 DEF AllSeen, FilledAt, c
    <3>6. OneEach' /\ Unbroken'
      BY <1>4, <3>1 DEF Account, OneEach, Unbroken, c
    <3>7. Sellable'
      <4>1. ASSUME NEW j \in PendingOrders(ledger), ledger.intent[j].side = "SELL"
            PROVE  ledger.intent[j].qty - c.qty[j] <= c.pos[ledger.intent[j].symbol]
        <5>1. j \in Keys /\ ledger.intent[j] \in Intents /\ ledger.intent[j].symbol \in Symbols
          BY <4>1 DEF PendingOrders, Typing, TypeOK, KernelStates, Intents
        <5>2. CASE j = k
          <6>1. o.size - b.qty[k] <= b.pos[o.symbol]
            BY <3>1, <4>1, <5>2 DEF Account, Sellable, b
          <6> QED BY <3>1, <3>2, <4>1, <5>2, <6>1
        <5>3. CASE j # k
          <6>1. ledger.intent[j].symbol # o.symbol
            BY <1>3, <3>1, <5>3 DEF Account, OneEach
          <6> QED BY <3>1, <4>1, <5>1, <5>3, <6>1 DEF Account, Sellable, b
        <5> QED BY <5>2, <5>3
      <4> QED BY <1>4, <4>1 DEF Sellable, c
    <3> QED BY <1>5, <3>4, <3>5, <3>6, <3>7 DEF Account
  <2> QED BY <2>2, <2>3
<1> QED BY <1>6, <1>7

LEMMA SettleAccount ==
  ASSUME Typing, Durable, Account, SettleSubmission \/ SettleReconciliation,
         UNCHANGED <<phase, plan>>
  PROVE  Account'
<1> DEFINE to == Normalise(report.status)
<1>1. /\ pc \in {"settle", "reconcile_settle"} /\ pc' = "idle" /\ mem = ledger
      /\ report.key \in Keys /\ order' = order
      /\ \/ UNCHANGED ledger
         \/ ledger'.status = [ledger.status EXCEPT ![report.key] = to]
  BY SettleStatus DEF SettleSubmission, SettleReconciliation
<1>2. /\ ledger'.seen = ledger.seen /\ ledger'.book = ledger.book
      /\ ledger'.intent = ledger.intent
  BY DEF SettleSubmission, SettleReconciliation, Settle, Transition, HydratedTransition, Typing,
         TypeOK, KernelStates
<1>3. report.key \in PendingOrders(ledger)
  BY <1>1 DEF Account, InHand
<1> HIDE DEF to
<1>4. PendingOrders(ledger') \subseteq PendingOrders(ledger)
  BY <1>1, <1>2, <1>3 DEF PendingOrders, Typing, TypeOK, KernelStates
<1>5. InHand' /\ OnOrder' /\ Ahead'
  BY <1>1, <1>2, <1>4 DEF InHand, OnOrder, Ahead, Account, Free
<1> QED BY <1>1, <1>2, <1>4, <1>5, QuietAccount

\* An order at the exchange only grows, and one that is filled stays so.
LEMMA VenueGrows ==
  ASSUME Typing, Covered, NEW k \in Keys, VenueStep(k), NEW j \in Keys, order[j] # None
  PROVE  /\ order'[j] # None /\ order'[j].symbol = order[j].symbol
         /\ order'[j].side = order[j].side /\ order'[j].size = order[j].size
         /\ order[j].filled <= order'[j].filled /\ order[j].gross <= order'[j].gross
         /\ order[j].filled <= order[j].size => order'[j].filled <= order[j].size
         /\ order[j].st = "filled" => order'[j] = order[j]
<1>1. order[j] \in VenueOrders
  BY DEF Typing, TypeOK
<1>2. order[j].filled \in Nat /\ order[j].gross \in Nat /\ order[j].size \in Nat
  BY <1>1 DEF VenueOrders
<1>3. CASE order'[j] = order[j]
  BY <1>2, <1>3
<1>4. CASE Arrive(k) \/ Vanish(k)
  <2>1. order'[j] = order[j]
    BY <1>4 DEF Arrive, Vanish, Typing, TypeOK
  <2> QED BY <1>3, <2>1
<1>5. ASSUME NEW px \in FillPrices, Fill(k, px), j = k
      PROVE  /\ order'[j] # None /\ order'[j].symbol = order[j].symbol
             /\ order'[j].side = order[j].side /\ order'[j].size = order[j].size
             /\ order[j].filled <= order'[j].filled /\ order[j].gross <= order'[j].gross
             /\ order'[j].filled <= order[j].size
             /\ order[j].st # "filled"
  <2>1. px \in Nat /\ Live(k) /\ order[j].st # "filled"
    BY <1>5, FillPricesAssumption DEF Fill, Live, LiveStates, DetourStates
  <2>2. order[j].filled < order[j].size
    BY <1>5, <2>1 DEF Covered
  <2> QED BY <1>2, <1>5, <2>1, <2>2, VenueFill
<1>6. ASSUME NEW px \in FillPrices, Fill(k, px), j # k PROVE order'[j] = order[j]
  BY <1>6, VenueFill
<1>7. ASSUME NEW st, Shift(k, st)
      PROVE  \/ order'[j] = order[j]
             \/ /\ order'[j] # None /\ order'[j].symbol = order[j].symbol
                /\ order'[j].side = order[j].side /\ order'[j].size = order[j].size
                /\ order'[j].filled = order[j].filled /\ order'[j].gross = order[j].gross
                /\ order[j].st # "filled"
  <2>1. Live(k) => order[k].st # "filled"
    BY DEF Live, LiveStates, DetourStates
  <2> QED BY <1>7, <2>1, VenueShift
<1> QED BY <1>2, <1>3, <1>4, <1>5, <1>6, <1>7, VenueMovesOrder

LEMMA VenueAccount ==
  ASSUME Typing, Submission, Covered, Account, NEW k \in Keys, VenueMoves(k)
  PROVE  Account'
<1>1. VenueStep(k) /\ ledger' = ledger /\ UNCHANGED <<pc, report, proposal, phase, plan>>
  BY DEF VenueMoves, kernelVars, processVars, runtimeVars, runVars
<1>2. Reported'
  <2>1. ASSUME NEW j \in Keys, order[j] = None, order'[j] # None
        PROVE  /\ order'[j].symbol = ledger.intent[j].symbol
               /\ order'[j].filled <= order'[j].size
               /\ ledger.book.qty[j] <= order'[j].filled
               /\ ledger.book.gross[j] <= order'[j].gross
    <3>1. j = k
      BY <1>1, <2>1, VenueTouches
    <3>2. ~Live(k) /\ ~Vanish(k)
      BY <2>1, <3>1 DEF Live, Vanish
    <3>3. Arrive(k)
      BY <1>1, <3>2, VenueMovesOrder DEF Fill, Shift
    <3>4. /\ wire[j] # None /\ wire[j] \in Intents /\ wire[j] = ledger.intent[j]
          /\ order'[j] = [st |-> "new", symbol |-> wire[j].symbol, side |-> wire[j].side,
                          size |-> wire[j].qty, filled |-> 0, gross |-> 0, resumed |-> FALSE]
      BY <3>1, <3>3 DEF Arrive, Typing, TypeOK, Submission, AsRecorded
    <3>5. ledger.book.qty[j] = 0 /\ ledger.book.gross[j] = 0
      BY <2>1 DEF Account, Reported
    <3> QED BY <3>4, <3>5 DEF Intents
  <2>2. ASSUME NEW j \in Keys, order[j] # None
        PROVE  /\ order'[j].symbol = ledger.intent[j].symbol
               /\ order'[j].filled <= order'[j].size
               /\ ledger.book.qty[j] <= order'[j].filled
               /\ ledger.book.gross[j] <= order'[j].gross
    <3>1. /\ order'[j].symbol = order[j].symbol /\ order'[j].size = order[j].size
          /\ order[j].filled <= order'[j].filled /\ order[j].gross <= order'[j].gross
          /\ order[j].filled <= order[j].size => order'[j].filled <= order[j].size
          /\ order'[j] # None
      BY <1>1, <2>2, VenueGrows
    <3>2. /\ order[j].symbol = ledger.intent[j].symbol
          /\ order[j].filled <= order[j].size
          /\ ledger.book.qty[j] <= order[j].filled /\ ledger.book.gross[j] <= order[j].gross
      BY <2>2 DEF Account, Reported
    <3>3. order' \in [Keys -> VenueOrders \cup {None}]
      BY <1>1, VenueStepType DEF Typing
    <3>4. /\ order[j] \in VenueOrders /\ order'[j] \in VenueOrders
          /\ ledger.book.qty[j] \in Nat /\ ledger.book.gross[j] \in Nat
      BY <2>2, <3>1, <3>3 DEF Typing, TypeOK, KernelStates, Books
    <3> QED BY <3>1, <3>2, <3>4 DEF VenueOrders
  <2>3. ASSUME NEW j \in Keys, order'[j] = None PROVE order[j] = None
    BY <1>1, <2>3, VenueGrows
  <2> QED BY <1>1, <2>1, <2>2, <2>3 DEF Account, Reported
<1>3. ASSUME NEW j \in Keys, NEW q, NEW g, FilledAt(j, q, g) PROVE FilledAt(j, q, g)'
  BY <1>1, <1>3, VenueGrows DEF FilledAt
<1>4. AllSeen'
  BY <1>1, <1>3 DEF Account, AllSeen, FilledAt
<1>5. ASSUME NEW r \in Reports, Genuine(r) PROVE Genuine(r)'
  <2>1. CASE r.order = None /\ ~IsFill(r) /\ r.id[1] # "alpaca"
    BY <1>1, <1>5, <2>1 DEF Genuine, PendingOrders
  <2>2. CASE ~(r.order = None /\ ~IsFill(r) /\ r.id[1] # "alpaca")
    <3>1. r.key \in Keys /\ order[r.key] # None /\ order[r.key] \in VenueOrders
      BY <1>5, <2>2 DEF Genuine, Reports, Typing, TypeOK
    <3>2. /\ order'[r.key] # None /\ order'[r.key].symbol = order[r.key].symbol
          /\ order'[r.key].side = order[r.key].side
          /\ order[r.key].filled <= order'[r.key].filled
          /\ order[r.key].gross <= order'[r.key].gross
      BY <1>1, <3>1, VenueGrows
    <3>3. order' \in [Keys -> VenueOrders \cup {None}]
      BY <1>1, VenueStepType DEF Typing
    <3>4. order'[r.key] \in VenueOrders
      BY <3>1, <3>2, <3>3
    <3>5. r.qty <= order'[r.key].filled /\ r.gross <= order'[r.key].gross
      BY <1>5, <2>2, <3>1, <3>2, <3>4 DEF Genuine, VenueOrders, Reports
    <3>6. r.status = "FILLED" => FilledAt(r.key, r.qty, r.gross)'
      BY <1>3, <1>5, <2>2, <3>1 DEF Genuine
    <3> QED BY <1>1, <1>5, <2>2, <3>2, <3>5, <3>6 DEF Genuine, PendingOrders, FilledAt
  <2> QED BY <2>1, <2>2
<1>6. InHand'
  <2>1. ASSUME pc' \in {"record", "reconcile"} PROVE Genuine(report)'
    <3>1. report \in Reports /\ Genuine(report)
      BY <1>1, <2>1 DEF Account, InHand, Typing, Situation, ReportSteps
    <3>2. PICK r \in Reports : r = report
      BY <3>1
    <3>3. Genuine(r)'
      BY <1>5, <3>1, <3>2
    <3>4. report' = r
      BY <1>1, <3>2
    <3> QED BY <3>3, <3>4 DEF Genuine, FilledAt
  <2> QED BY <1>1, <2>1 DEF Account, InHand, PendingOrders
<1>7. Unbroken' /\ OneEach' /\ Sellable' /\ OnOrder' /\ Ahead'
  BY <1>1 DEF Account, Unbroken, OneEach, Sellable, OnOrder, Ahead, Free, PendingOrders,
              DerivedIntent, DerivedQuantity
<1> QED BY <1>2, <1>4, <1>6, <1>7 DEF Account

LEMMA CreateIntentAccount ==
  ASSUME Typing, Durable, Submission, Trading, Account, CreateIntent, UNCHANGED <<phase, plan>>
  PROVE  Account'
<1>1. /\ pc = "create_intent" /\ pc' = "validate" /\ mem = ledger /\ proposal \in ProposalType
      /\ proposal' = proposal /\ order' = order /\ wire' = wire
  BY KernelAssumption
     DEF CreateIntent, At, Goto, Durable, Typing, Situation, HandlerSteps, Steps, venueVars
<1>2. PICK i \in Intents : /\ i = DerivedIntent(ledger, proposal) /\ i.key = proposal.key
                           /\ i.symbol = proposal.symbol
  <2>1. DerivedIntent(ledger, proposal) \in Intents
    BY <1>1, DerivedIntentType DEF Typing, TypeOK, Situation
  <2>2. DerivedIntent(ledger, proposal) # None
    BY <1>1 DEF Typing, Situation
  <2>3. /\ DerivedIntent(ledger, proposal).key = proposal.key
        /\ DerivedIntent(ledger, proposal).symbol = proposal.symbol
    BY <2>2 DEF DerivedIntent
  <2> QED BY <2>1, <2>3
<1> DEFINE k == proposal.key
<1>3. k \in Keys /\ i # None
  BY <1>1, <1>2, NoneAssumption DEF ProposalType
<1>4. /\ ledger'.intent = [ledger.intent EXCEPT ![k] = i]
      /\ ledger'.status = [ledger.status EXCEPT ![k] = "CREATED"]
      /\ ledger'.book = ledger.book /\ ledger'.seen = ledger.seen
  BY <1>1, <1>2 DEF CreateIntent, HydratedTransition, HydratedIntent, Typing, TypeOK, KernelStates
<1>5. /\ ledger'.intent[k] = i
      /\ \A j \in Keys \ {k} : /\ ledger'.intent[j] = ledger.intent[j]
                               /\ ledger'.status[j] = ledger.status[j]
  BY <1>3, <1>4 DEF Typing, TypeOK, KernelStates
<1>6. /\ \A j \in PendingOrders(ledger') : j = k \/ (j # k /\ j \in PendingOrders(ledger))
      /\ k \in PendingOrders(ledger')
  BY <1>3, <1>4, <1>5 DEF PendingOrders, Typing, TypeOK, KernelStates, Terminal
<1>7. \A j \in PendingOrders(ledger) : ledger.intent[j].symbol # i.symbol
  BY <1>1, <1>2 DEF Account, OnOrder, Free
<1>8. order[k] = None
  BY <1>1, <1>3 DEF Submission, EarlySteps
<1>9. i.side = "SELL" => i.qty <= ledger.book.pos[i.symbol]
  <2>1. ~ExceedsPosition(i, ledger.book.pos[i.symbol])
    BY <1>1, <1>2 DEF Account, OnOrder
  <2>2. i.qty \in Nat /\ ledger.book.pos[i.symbol] \in Nat
    BY DEF Intents, Typing, TypeOK, KernelStates, Books
  <2> QED BY <2>1, <2>2 DEF ExceedsPosition
<1> HIDE DEF k
<1>10. Reported'
  BY <1>1, <1>4, <1>5, <1>8 DEF Account, Reported
<1>11. AllSeen' /\ Unbroken'
  BY <1>1, <1>4 DEF Account, AllSeen, FilledAt, Unbroken
<1>12. OneEach'
  <2>1. ASSUME NEW a \in PendingOrders(ledger'), NEW b \in PendingOrders(ledger'),
               ledger'.intent[a].symbol = ledger'.intent[b].symbol
        PROVE  a = b
    <3>1. a \in Keys /\ b \in Keys
      BY DEF PendingOrders
    <3> QED BY <1>5, <1>6, <1>7, <2>1, <3>1 DEF Account, OneEach
  <2> QED BY <2>1 DEF OneEach
<1>13. Sellable'
  <2>1. ASSUME NEW a \in PendingOrders(ledger'), ledger'.intent[a].side = "SELL"
        PROVE  ledger'.intent[a].qty - ledger.book.qty[a] <= ledger.book.pos[ledger'.intent[a].symbol]
    <3>1. CASE a = k
      <4>1. /\ i.qty \in Nat /\ ledger.book.qty[k] \in Nat /\ ledger.book.pos[i.symbol] \in Nat
        BY <1>3 DEF Intents, Typing, TypeOK, KernelStates, Books
      <4> QED BY <1>5, <1>9, <2>1, <3>1, <4>1
    <3>2. CASE a # k
      <4>1. a \in Keys /\ a \in PendingOrders(ledger)
        BY <1>6, <3>2 DEF PendingOrders
      <4> QED BY <1>5, <2>1, <3>2, <4>1 DEF Account, Sellable
    <3> QED BY <3>1, <3>2
  <2> QED BY <1>4, <2>1 DEF Sellable
<1>14. Ahead'
  <2>1. ASSUME phase = "trade", NEW n \in DOMAIN plan, NEW a \in PendingOrders(ledger')
        PROVE  ledger'.intent[a].symbol # plan[n].symbol
    <3>1. plan[n].symbol # i.symbol
      BY <1>1, <1>2, <2>1 DEF Trading, OrderSteps
    <3>2. a \in Keys
      BY DEF PendingOrders
    <3> QED BY <1>5, <1>6, <2>1, <3>1, <3>2 DEF Account, Ahead, Free
  <2> QED BY <2>1 DEF Ahead, Free
<1>15. InHand' /\ OnOrder'
  BY <1>1, <1>6 DEF InHand, OnOrder, k
<1> QED BY <1>10, <1>11, <1>12, <1>13, <1>14, <1>15 DEF Account

\* An approved order passed the check against a short position.
LEMMA ApprovedSale ==
  ASSUME NEW p, NEW i, NEW cash, NEW position, NEW m, NEW ks, NEW known, NEW fresh,
         Evaluate(p, i, cash, position, m, ks, known, fresh) = "APPROVED",
         p.action \notin {"HOLD", "CANCEL"}
  PROVE  ~ExceedsPosition(i, position)
BY DEF Evaluate

LEMMA DecideAccount ==
  ASSUME Typing, Durable, Account, Decide, UNCHANGED <<phase, plan>>
  PROVE  Account'
<1> DEFINE p == proposal
           verdict(fresh) == Evaluate(p, DerivedIntent(mem, p), AvailableCash(mem),
                               mem.book.pos[p.symbol], mode, kill, mem.known, fresh)
<1>1. pc = "evaluate" /\ mem = ledger /\ order' = order
  BY DEF Decide, At, Durable, venueVars
<1>2. PICK fresh \in BOOLEAN :
        LET approved == verdict(fresh) = "APPROVED"
        IN  /\ ledger' = HydratedDecision(ledger, p.key, approved)
            /\ IF approved /\ p.action # "HOLD"
               THEN Goto(AfterApproval(p)) /\ proposal' = proposal
               ELSE Return(verdict(fresh))
  BY DEF Decide
<1>3. /\ ledger'.intent = ledger.intent /\ ledger'.status = ledger.status
      /\ ledger'.book = ledger.book /\ ledger'.seen = ledger.seen
  BY <1>2 DEF HydratedDecision, Typing, TypeOK, KernelStates
<1>4. PendingOrders(ledger') = PendingOrders(ledger)
  BY <1>3 DEF PendingOrders
<1>5. /\ pc' \in {"idle", "cancel", "create_intent"}
      /\ pc' = "create_intent" =>
           /\ proposal' = p /\ verdict(fresh) = "APPROVED" /\ p.action \notin {"HOLD", "CANCEL"}
  BY <1>2 DEF Goto, AfterApproval, Return
<1>6. pc' = "create_intent" => ~ExceedsPosition(DerivedIntent(ledger, p), ledger.book.pos[p.symbol])
  BY <1>1, <1>5, ApprovedSale
<1>7. DerivedIntent(ledger', p) = DerivedIntent(ledger, p)
  BY <1>3 DEF DerivedIntent, DerivedQuantity
<1>8. Free(p.symbol)
  BY <1>1 DEF Account, OnOrder, Free
<1>9. OnOrder'
  <2>1. CASE pc' = "create_intent"
    <3>1. proposal' = p
      BY <1>5, <2>1
    <3>2. Free(proposal.symbol)'
      BY <1>3, <1>4, <1>8, <3>1 DEF Free
    <3> HIDE DEF p
    <3>3. ~ExceedsPosition(DerivedIntent(ledger', proposal'), ledger'.book.pos[proposal'.symbol])
      BY <1>3, <1>6, <1>7, <2>1, <3>1
    <3> QED BY <2>1, <3>2, <3>3 DEF OnOrder
  <2>2. CASE pc' # "create_intent"
    BY <1>5, <2>2 DEF OnOrder
  <2> QED BY <2>1, <2>2
<1>10. InHand' /\ Ahead'
  BY <1>3, <1>4, <1>5 DEF Account, InHand, Ahead, Free
<1> QED BY <1>1, <1>3, <1>4, <1>9, <1>10, QuietAccount

LEMMA AdvanceAccount ==
  ASSUME Typing, Durable, Account, Validate \/ MarkSubmitting, UNCHANGED <<phase, plan>>
  PROVE  Account'
<1> DEFINE k == proposal.key
<1>1. /\ pc \in {"validate", "mark_submitting"} /\ mem = ledger /\ order' = order
      /\ k \in Keys /\ k \in PendingOrders(ledger)
      /\ pc' \in {"idle", "mark_submitting", "submit"}
      /\ pc' # "idle" => proposal' = proposal
  BY KernelAssumption
     DEF Validate, MarkSubmitting, Advance, At, Goto, Return, Durable, Typing, Situation,
         HandlerSteps, Steps, ProposalType, venueVars, Account, OnOrder
<1>2. \/ ledger' = ledger
      \/ \E to \in {"VALIDATED", "SUBMITTING"} : ledger' = HydratedTransition(ledger, k, to)
  BY DEF Validate, MarkSubmitting, Advance, Transition
<1>3. /\ ledger'.intent = ledger.intent /\ ledger'.book = ledger.book
      /\ ledger'.seen = ledger.seen
      /\ \A j \in Keys : ledger'.status[j] = ledger.status[j]
                         \/ (j = k /\ ledger'.status[j] \notin Terminal)
  BY <1>1, <1>2 DEF HydratedTransition, Typing, TypeOK, KernelStates, Terminal
<1>4. PendingOrders(ledger') = PendingOrders(ledger)
  BY <1>1, <1>3 DEF PendingOrders
<1>5. InHand' /\ OnOrder' /\ Ahead'
  BY <1>1, <1>3, <1>4 DEF Account, InHand, OnOrder, Ahead, Free
<1> QED BY <1>1, <1>3, <1>4, <1>5, QuietAccount

\* The kernel takes a snapshot of a pending order in hand.
LEMMA SnapshotInHand ==
  ASSUME Typing, Account, NEW k \in PendingOrders(ledger), order[k] # None,
         report' = Snapshot(k), UNCHANGED <<ledger, order, phase, plan>>,
         pc' \in {"record", "reconcile"}
  PROVE  Account'
<1>1. PICK r : r = Snapshot(k)
  OBVIOUS
<1>2. Genuine(r)
  BY <1>1, SnapshotGenuine DEF Account
<1>3. report' = r
  BY <1>1
<1>4. Genuine(report)'
  BY <1>2, <1>3 DEF Genuine, FilledAt
<1>5. InHand' /\ OnOrder' /\ Ahead'
  BY <1>4 DEF Account, InHand, OnOrder, Ahead, Free
<1> QED BY <1>5, QuietAccount

LEMMA AnswerAccount ==
  ASSUME Typing, Submission, Durable, Account, Submit \/ ReplyKnown \/ ReplyUnknown,
         UNCHANGED <<phase, plan>>
  PROVE  Account'
<1>1. /\ pc \in {"submit", "posted"} /\ mem = ledger /\ UNCHANGED <<ledger, order>>
      /\ proposal.key \in Keys /\ proposal.key \in PendingOrders(ledger)
      /\ proposal' = proposal
  BY KernelAssumption
     DEF Submit, ReplyKnown, ReplyUnknown, At, Durable, Typing, Situation, HandlerSteps, Steps,
         ProposalType, venueVars, Account, OnOrder
<1>2. PICK i \in Intents : i = mem.intent[proposal.key] /\ i.key = proposal.key
  BY <1>1 DEF PendingOrders, Typing, TypeOK, KernelStates, Submission
<1>3. CASE pc' = "posted"
  <2>1. InHand' /\ OnOrder' /\ Ahead'
    BY <1>1, <1>3 DEF Account, InHand, OnOrder, Ahead, Free
  <2> QED BY <1>1, <2>1, QuietAccount
<1>4. CASE /\ pc' = "record" /\ order[proposal.key] # None
           /\ report' = Snapshot(proposal.key)
  BY <1>1, <1>4, SnapshotInHand
<1>5. CASE ReplyUnknown
  <2>1. PICK r : r = UnknownReport(i)
    OBVIOUS
  <2>2. /\ r.key = proposal.key /\ r.currency = AccountCurrency /\ r.fee = 0 /\ r.order = None
        /\ r.id = <<"unknown", i.key, "UNKNOWN", 0>> /\ r.status = "UNKNOWN"
    BY <1>2, <2>1 DEF UnknownReport
  <2>3. report' = r /\ pc' = "record"
    BY <1>2, <1>5, <2>1 DEF ReplyUnknown, Goto
  <2>4. Genuine(r)
    BY <1>1, <2>2 DEF Genuine, IsFill, FillStates
  <2>5. Genuine(report)'
    BY <1>1, <2>3, <2>4 DEF Genuine, FilledAt
  <2>6. InHand' /\ OnOrder' /\ Ahead'
    BY <1>1, <2>3, <2>5 DEF Account, InHand, OnOrder, Ahead, Free
  <2> QED BY <1>1, <2>6, QuietAccount
<1> QED BY <1>2, <1>3, <1>4, <1>5 DEF Submit, ReplyKnown, Goto

LEMMA HandleNextAccount ==
  ASSUME Typing, Planned, Account, HandleNext
  PROVE  Account'
<1>1. /\ plan # <<>> /\ plan' = Tail(plan) /\ Receive(Head(plan)) /\ phase = "trade"
      /\ phase' = phase /\ order' = order
  BY DEF HandleNext, InMain, Receive, venueVars
<1>2. pc' = "idle" \/ (pc' = "evaluate" /\ proposal' = Head(plan))
  BY <1>1 DEF Receive, Raise, Return, Goto
<1>3. /\ 1 \in DOMAIN plan /\ Head(plan) = plan[1]
      /\ \A n \in DOMAIN plan' : n + 1 \in DOMAIN plan /\ plan'[n] = plan[n + 1]
  BY <1>1 DEF Planned
<1>4. /\ ledger'.intent = ledger.intent /\ ledger'.status = ledger.status
      /\ ledger'.book = ledger.book /\ ledger'.seen = ledger.seen
  BY <1>1 DEF Receive, HydratedProposal, Typing, TypeOK, KernelStates
<1>5. PendingOrders(ledger') = PendingOrders(ledger)
  BY <1>4 DEF PendingOrders
<1>6. \A n \in DOMAIN plan : Free(plan[n].symbol)
  BY <1>1 DEF Account, Ahead
<1>7. Ahead'
  BY <1>3, <1>4, <1>5, <1>6 DEF Ahead, Free
<1>8. InHand' /\ OnOrder'
  BY <1>2, <1>3, <1>4, <1>5, <1>6 DEF InHand, OnOrder, Free
<1> QED BY <1>1, <1>4, <1>5, <1>7, <1>8, QuietAccount

LEMMA NextAccount ==
  ASSUME Base, Covered, Account, [RuntimeNext]_allVars
  PROVE  Account'
<1>1. ASSUME UNCHANGED <<ledger, order>>, pc' \in {"idle", "down"},
             phase' # "trade" \/ UNCHANGED <<phase, plan>> \/ PendingOrders(ledger) = {}
      PROVE  Account'
  <2>1. InHand' /\ OnOrder' /\ Ahead'
    BY <1>1 DEF Account, InHand, OnOrder, Ahead, Free
  <2> QED BY <1>1, <2>1, QuietAccount
<1>2. ASSUME End PROVE Account'
  BY <1>1, <1>2 DEF End, Stop, Goto, venueVars
<1>3. CASE BeginCycle
  <2>1. PendingOrders(ledger) = {} /\ UNCHANGED <<ledger, order>> /\ pc' = "idle"
    BY <1>3 DEF Base, Settled, BeginCycle, InMain, vars, kernelVars, processVars, venueVars
  <2> QED BY <1>1, <2>1
<1>4. ASSUME NEW k \in Keys, LookUpPending(k) PROVE Account'
  <2>1. /\ k \in PendingOrders(ledger) /\ order[k] # None /\ report' = Snapshot(k)
        /\ pc' = "reconcile" /\ UNCHANGED <<ledger, order, phase, plan>>
    BY <1>4 DEF LookUpPending, LookUp, Goto, venueVars
  <2> QED BY <2>1, SnapshotInHand DEF Base
<1>5. CASE HandlerStep
  <2>1. UNCHANGED <<phase, plan>>
    BY <1>5 DEF HandlerStep, runtimeVars, runVars
  <2>2. CASE SubmitRaises \/ ReplyRaises
    BY <1>1, <2>1, <2>2 DEF SubmitRaises, ReplyRaises, Raise, Return, venueVars
  <2>3. CASE RecordSubmission \/ Reconcile
    <3>1. pc \in {"record", "reconcile"} /\ order' = order
      BY <2>3 DEF RecordSubmission, RecordReport, Reconcile, At, venueVars
    <3>2. \/ /\ Record(report) /\ pc' \in {"settle", "reconcile_settle"}
             /\ UNCHANGED <<report, proposal>>
          \/ pc' = "idle" /\ ledger' = ledger
      BY <2>3 DEF RecordSubmission, RecordReport, Reconcile, FailSafe, Return, Goto
    <3>3. CASE pc' = "idle" /\ ledger' = ledger
      BY <1>1, <2>1, <3>1, <3>3
    <3>4. CASE /\ Record(report) /\ pc' \in {"settle", "reconcile_settle"}
               /\ UNCHANGED <<report, proposal>>
      BY <2>1, <3>1, <3>4, RecordAccount DEF Base
    <3> QED BY <3>2, <3>3, <3>4
  <2> QED BY <1>5, <2>1, <2>2, <2>3, DecideAccount, CreateIntentAccount, AdvanceAccount,
             AnswerAccount, SettleAccount
          DEF HandlerStep, Base
<1>6. CASE \/ Launch \/ (\E k \in Keys : NotFound(k)) \/ FetchPositions \/ Guard \/ SkipCycle
           \/ CompleteCycle \/ FinishBootstrap \/ Uncaught \/ Killed
  BY <1>1, <1>2, <1>6
     DEF Launch, Start, NotFound, FetchPositions, Guard, SkipCycle, CompleteCycle,
         FinishBootstrap, Uncaught, Killed, Crash, InMain, Goto, vars, kernelVars, processVars,
         venueVars
<1>7. CASE NextBar \/ UNCHANGED allVars
  <2>1. UNCHANGED <<order, ledger, pc, report, proposal, phase, plan>>
    BY <1>7 DEF NextBar, allVars, vars, kernelVars, processVars, venueVars, runtimeVars, runVars
  <2>2. InHand'
    BY <2>1 DEF Account, InHand, Genuine, FilledAt
  <2>3. OnOrder' /\ Ahead'
    BY <2>1 DEF Account, OnOrder, Ahead, Free
  <2> QED BY <2>1, <2>2, <2>3, QuietAccount
<1> QED BY <1>3, <1>4, <1>5, <1>6, <1>7, VenueAccount, HandleNextAccount
        DEF RuntimeNext, RunStep, Base

\* What is proved of the account so far, with all it rests on.
LEMMA RuntimeAccount ==
  ASSUME NeverSuspends
  PROVE  RuntimeSpec => [](Base /\ Covered /\ Account)
<1>1. RuntimeInit => Account
  <2>1. ASSUME RuntimeInit PROVE Reported /\ AllSeen /\ Unbroken
    BY <2>1 DEF RuntimeInit, Init, VenueInit, EmptyState, EmptyBook, Reported, AllSeen, Unbroken
  <2>2. ASSUME RuntimeInit PROVE PendingOrders(ledger) = {}
    BY <2>2 DEF RuntimeInit, Init, EmptyState, PendingOrders
  <2>3. ASSUME RuntimeInit PROVE InHand /\ OnOrder /\ Ahead
    BY <2>3 DEF RuntimeInit, Init, InHand, OnOrder, Ahead
  <2> QED BY <2>1, <2>2, <2>3 DEF Account, OneEach, Sellable
<1>2. RuntimeInit => Covered /\ NeverShort
  BY DEF RuntimeInit, Init, VenueInit, Covered, Works, Live, NeverShort
<1>3. Base /\ Covered /\ NeverShort /\ [RuntimeNext]_allVars => (Covered /\ NeverShort)'
  BY NextCovered
<1>4. Base /\ Covered /\ Account /\ [RuntimeNext]_allVars => Account'
  BY NextAccount
<1> QED BY <1>1, <1>2, <1>3, <1>4, RuntimeBase, PTL DEF RuntimeSpec

\* Over partial fills, reports taken before a kill and recorded after another, and unknown
\* submissions, the book never shows more of an order than the exchange filled, and all of it
\* when the ledger calls it FILLED (reconcile_execution_report, replay_events).
THEOREM BookTrue ==
  ASSUME NeverSuspends
  PROVE  RuntimeSpec => []BookFollowsVenue
<1>1. Base /\ Account => BookFollowsVenue
  <2> SUFFICES ASSUME Base, Account, NEW k \in Keys
               PROVE  /\ ledger.book.qty[k] > 0 => /\ order[k] # None
                                                   /\ ledger.book.qty[k] <= order[k].filled
                                                   /\ ledger.book.gross[k] <= order[k].gross
                      /\ ledger.status[k] = "FILLED" => /\ ledger.book.qty[k] = order[k].filled
                                                        /\ ledger.book.gross[k] = order[k].gross
    BY DEF BookFollowsVenue
  <2>1. ledger.book.qty[k] > 0 => /\ order[k] # None
                                  /\ ledger.book.qty[k] <= order[k].filled
                                  /\ ledger.book.gross[k] <= order[k].gross
    BY DEF Account, Reported
  <2>2. ASSUME ledger.status[k] = "FILLED"
        PROVE  FilledAt(k, ledger.book.qty[k], ledger.book.gross[k])
    <3>1. ClosedAs(k, "FILLED") /\ <<"alpaca", k, "FILLED", order[k].filled>> \in ledger.seen
      BY <2>2 DEF Base, Evidence, FinalId, Terminal
    <3>2. order[k].filled \in Nat
      BY <3>1 DEF ClosedAs, Base, Typing, TypeOK, VenueOrders
    <3> QED BY <3>1, <3>2 DEF Account, AllSeen
  <2> QED BY <2>1, <2>2 DEF FilledAt
<1> QED BY <1>1, RuntimeAccount, PTL

\* The replay of the recorded reports never raises on a quantity, a gross or a fee that went back,
\* on a sale beyond the position or on a currency: no run gets stuck on its own ledger
\* (PortfolioReconciler.replay_events, expected_position_quantities).
THEOREM ReplayReturns ==
  ASSUME NeverSuspends
  PROVE  RuntimeSpec => []~ledger.book.broken
<1>1. Account => ~ledger.book.broken
  BY DEF Account, Unbroken
<1> QED BY <1>1, RuntimeAccount, PTL

-----------------------------------------------------------------------------
(* The book converges to the account.                                      *)

\* Everything filled of order k is in the book.
Booked(k) == order[k] # None => ledger.book.qty[k] = order[k].filled

\* Of the orders o, all those in s are booked at the quantities q, save the ones in except.
BookedSave(o, q, s, except) ==
  \A k \in Keys \ except : o[k] # None /\ o[k].symbol = s => q[k] = o[k].filled

\* What the exchange did in a symbol is what the book shows, and of one order more than that.
Balance ==
  /\ \A s \in Symbols : BookedSave(order, ledger.book.qty, s, {}) => ledger.book.pos[s] = shares[s]
  /\ \A k \in Keys :
       order[k] # None /\ BookedSave(order, ledger.book.qty, order[k].symbol, {k}) =>
         LET held == ledger.book.pos[order[k].symbol]
             more == order[k].filled - ledger.book.qty[k]
         IN  /\ order[k].side = "BUY"  => held + more = shares[order[k].symbol]
             /\ order[k].side = "SELL" => held - more = shares[order[k].symbol]

\* What was never begun, or closed other than by its last fill, was never filled.
Unfilled ==
  \A k \in Keys :
    order[k] # None /\ order[k].st \in {"new", "canceled", "rejected"} => order[k].filled = 0

LEMMA VenueUnfilled ==
  ASSUME Typing, ~CancelsAfterFills, Unfilled, NEW k \in Keys, VenueStep(k)
  PROVE  Unfilled'
<1>1. SUFFICES ASSUME NEW j \in Keys, order'[j] # None,
                      order'[j].st \in {"new", "canceled", "rejected"}
               PROVE  order'[j].filled = 0
  BY DEF Unfilled
<1>2. CASE order'[j] = order[j]
  BY <1>1, <1>2 DEF Unfilled
<1>3. CASE Arrive(k)
  BY <1>2, <1>3 DEF Arrive, Typing, TypeOK
<1>4. CASE Vanish(k)
  BY <1>2, <1>4 DEF Vanish
<1>5. ASSUME NEW px \in FillPrices, Fill(k, px) PROVE order'[j].filled = 0
  <2>1. order'[k].st \notin {"new", "canceled", "rejected"}
    BY <1>5, VenueFill DEF FillResults
  <2>2. j # k
    BY <1>1, <2>1
  <2> QED BY <1>2, <1>5, <2>2, VenueFill
<1>6. ASSUME NEW st, Shift(k, st) PROVE order'[j].filled = 0
  <2>1. CASE j # k
    BY <1>2, <1>6, <2>1, VenueShift
  <2>2. CASE j = k
    <3>1. st \in {"new", "canceled", "rejected"}
      BY <1>1, <1>6, <2>2, VenueShift
    <3>2. order[k].filled = 0
      BY <1>6, <3>1 DEF Shift
    <3> QED BY <1>6, <2>2, <3>2, VenueShift
  <2> QED BY <2>1, <2>2
<1> QED BY <1>3, <1>4, <1>5, <1>6, VenueMovesOrder

\* An order that is closed in the ledger is booked.
LEMMA ClosedBooked ==
  ASSUME Base, Account, Unfilled, NEW k \in Keys, ledger.status[k] \in Terminal
  PROVE  Booked(k)
<1>1. ClosedAs(k, ledger.status[k]) /\ FinalId(k, ledger.status[k]) \in ledger.seen
  BY DEF Base, Evidence
<1>2. order[k] # None /\ order[k] \in VenueOrders
  BY <1>1 DEF ClosedAs, Base, Typing, TypeOK
<1>3. CASE ledger.status[k] = "FILLED"
  <2>1. <<"alpaca", k, "FILLED", order[k].filled>> \in ledger.seen /\ order[k].filled \in Nat
    BY <1>1, <1>2, <1>3 DEF FinalId, VenueOrders
  <2> QED BY <2>1 DEF Account, AllSeen, FilledAt, Booked
<1>4. CASE ledger.status[k] \in {"REJECTED", "CANCELLED"}
  <2>1. order[k].st \in {"canceled", "rejected"}
    <3>1. MapStatus(order[k].st) = ledger.status[k] /\ order[k].st \in ClosedStates
      BY <1>1, ClosedAsMapped DEF Base
    <3> QED BY <1>4, <3>1 DEF MapStatus, ClosedStates
  <2>2. order[k].filled = 0
    BY <1>2, <2>1 DEF Unfilled
  <2>3. ledger.book.qty[k] <= order[k].filled /\ ledger.book.qty[k] \in Nat
    BY <1>2 DEF Base, Typing, TypeOK, KernelStates, Books, Account, Reported
  <2> QED BY <2>2, <2>3 DEF Booked
<1> QED BY <1>3, <1>4 DEF Terminal

LEMMA VenueBalance ==
  ASSUME Base, Covered, Account, Balance, NEW k \in Keys, VenueMoves(k)
  PROVE  Balance'
<1> DEFINE before(s, except) == BookedSave(order, ledger.book.qty, s, except)
           after(s, except) == BookedSave(order', ledger'.book.qty, s, except)
<1>1. VenueStep(k) /\ ledger' = ledger /\ TypeOK
  BY DEF VenueMoves, kernelVars, Base, Typing
<1>2. \A j \in Keys \ {k} : order'[j] = order[j]
  BY <1>1, VenueTouches DEF Base
<1>3. CASE /\ shares' = shares /\ order[k] # None /\ order'[k] # None
           /\ order'[k].symbol = order[k].symbol /\ order'[k].side = order[k].side
           /\ order'[k].filled = order[k].filled
  <2>1. \A j \in Keys : /\ order'[j] # None <=> order[j] # None
                        /\ order[j] # None => /\ order'[j].symbol = order[j].symbol
                                              /\ order'[j].side = order[j].side
                                              /\ order'[j].filled = order[j].filled
    BY <1>2, <1>3
  <2>2. \A s, e : after(s, e) <=> before(s, e)
    BY <1>1, <2>1 DEF BookedSave, Booked
  <2> QED BY <1>1, <1>3, <2>1, <2>2 DEF Balance
<1>4. ASSUME NEW st, Shift(k, st) PROVE Balance'
  BY <1>3, <1>4, VenueShift DEF Base
<1>5. CASE Vanish(k)
  <2>1. order' = order /\ shares' = shares
    BY <1>5 DEF Vanish
  <2> QED BY <1>1, <2>1 DEF Balance, BookedSave, Booked
<1>6. CASE Arrive(k)
  <2>1. /\ order[k] = None /\ shares' = shares /\ wire[k] \in Intents
        /\ order'[k] = [st |-> "new", symbol |-> wire[k].symbol, side |-> wire[k].side,
                        size |-> wire[k].qty, filled |-> 0, gross |-> 0, resumed |-> FALSE]
    BY <1>1, <1>6 DEF Arrive, TypeOK
  <2>2. /\ order'[k].symbol = wire[k].symbol /\ order'[k].side = wire[k].side
        /\ order'[k].filled = 0 /\ ledger.book.qty[k] = 0
    BY <2>1 DEF Account, Reported
  <2>3. \A s, e : after(s, e) => before(s, e)
    BY <1>1, <1>2, <2>1 DEF BookedSave, Booked
  <2>4. \A s : after(s, {k}) => before(s, {})
    BY <1>1, <1>2, <2>1 DEF BookedSave, Booked
  <2>5. \A s \in Symbols : after(s, {}) => ledger'.book.pos[s] = shares'[s]
    BY <1>1, <2>1, <2>3 DEF Balance
  <2>6. ASSUME NEW j \in Keys, order'[j] # None, after(order'[j].symbol, {j})
        PROVE  LET held == ledger'.book.pos[order'[j].symbol]
                   more == order'[j].filled - ledger'.book.qty[j]
               IN  /\ order'[j].side = "BUY"  => held + more = shares'[order'[j].symbol]
                   /\ order'[j].side = "SELL" => held - more = shares'[order'[j].symbol]
    <3>1. CASE j # k
      <4>1. order'[j] = order[j] /\ before(order[j].symbol, {j})
        BY <1>2, <2>3, <2>6, <3>1
      <4> QED BY <1>1, <2>1, <2>6, <4>1 DEF Balance
    <3>2. CASE j = k
      <4>1. wire[k].symbol \in Symbols /\ before(wire[k].symbol, {})
        BY <2>1, <2>2, <2>4, <2>6, <3>2 DEF Intents
      <4>2. ledger.book.pos[wire[k].symbol] = shares[wire[k].symbol]
        BY <4>1 DEF Balance
      <4>3. ledger.book.pos[wire[k].symbol] \in Nat
        BY <1>1, <4>1 DEF TypeOK, KernelStates, Books
      <4> QED BY <1>1, <2>1, <2>2, <3>2, <4>2, <4>3
    <3> QED BY <3>1, <3>2
  <2> QED BY <2>5, <2>6 DEF Balance
<1>7. ASSUME NEW px \in FillPrices, Fill(k, px) PROVE Balance'
  <2> DEFINE o == order[k]
             s == o.symbol
             sign == IF o.side = "BUY" THEN 1 ELSE -1
  <2>1. /\ o # None /\ o \in VenueOrders /\ s \in Symbols /\ o.filled \in Nat
        /\ o.side \in {"BUY", "SELL"} /\ ledger.book.qty[k] \in Nat
        /\ ledger.book.qty[k] <= o.filled
    BY <1>1, <1>7 DEF Fill, Live, VenueOrders, OrderSide, TypeOK, KernelStates, Books, Account,
                      Reported
  <2>2. /\ order'[k] # None /\ order'[k].symbol = s /\ order'[k].side = o.side
        /\ order'[k].filled = o.filled + 1
    <3>1. order'[k] # None /\ order'[k].symbol = s /\ order'[k].side = o.side
      BY <1>1, <2>1, VenueGrows DEF Base
    <3>2. order'[k].filled = o.filled + 1
      BY <1>7, VenueFill DEF Base
    <3> QED BY <3>1, <3>2
  <2>3. shares' = [shares EXCEPT ![s] = @ + sign]
    BY <1>7 DEF Fill
  <2>4. /\ shares \in [Symbols -> Int] /\ ledger.book.pos \in [Symbols -> Nat]
    BY <1>1 DEF TypeOK, KernelStates, Books
  <2> HIDE DEF sign, s, o
  <2>5. shares'[s] = shares[s] + sign /\ \A t \in Symbols \ {s} : shares'[t] = shares[t]
    BY <2>1, <2>3, <2>4
  <2>6. ledger'.book.qty[k] # order'[k].filled
    BY <1>1, <2>1, <2>2
  <2>7. \A e : k \notin e => ~after(s, e)
    BY <2>2, <2>6 DEF BookedSave
  <2>8. \A t, e : t # s \/ k \in e => (after(t, e) => before(t, e))
    BY <1>1, <1>2, <2>1, <2>2 DEF BookedSave, Booked, o, s
  <2>9. \A t \in Symbols : after(t, {}) => ledger'.book.pos[t] = shares'[t]
    BY <1>1, <2>5, <2>7, <2>8 DEF Balance
  <2>10. ASSUME NEW j \in Keys, order'[j] # None, after(order'[j].symbol, {j})
         PROVE  LET held == ledger'.book.pos[order'[j].symbol]
                    more == order'[j].filled - ledger'.book.qty[j]
                IN  /\ order'[j].side = "BUY"  => held + more = shares'[order'[j].symbol]
                    /\ order'[j].side = "SELL" => held - more = shares'[order'[j].symbol]
    <3>1. CASE j # k
      <4>1. order'[j] = order[j] /\ order[j].symbol # s /\ before(order[j].symbol, {j})
        BY <1>2, <2>7, <2>8, <2>10, <3>1
      <4>2. order[j].symbol \in Symbols
        BY <1>1, <2>10, <4>1 DEF TypeOK, VenueOrders
      <4> QED BY <1>1, <2>5, <2>10, <4>1, <4>2 DEF Balance
    <3>2. CASE j = k
      <4>1. before(s, {k})
        BY <2>2, <2>8, <2>10, <3>2
      <4>2. /\ o.side = "BUY" =>
                 ledger.book.pos[s] + (o.filled - ledger.book.qty[k]) = shares[s]
            /\ o.side = "SELL" =>
                 ledger.book.pos[s] - (o.filled - ledger.book.qty[k]) = shares[s]
        BY <2>1, <4>1 DEF Balance, o, s
      <4>3. ledger.book.pos[s] \in Nat /\ shares[s] \in Int
        BY <2>1, <2>4
      <4>4. /\ o.side = "BUY" => sign = 1
            /\ o.side = "SELL" => sign = -1
        BY DEF sign
      <4>5. /\ o.side = "BUY" =>
                 ledger.book.pos[s] + ((o.filled + 1) - ledger.book.qty[k]) = shares'[s]
            /\ o.side = "SELL" =>
                 ledger.book.pos[s] - ((o.filled + 1) - ledger.book.qty[k]) = shares'[s]
        BY <2>1, <2>5, <4>2, <4>3, <4>4
      <4> QED BY <1>1, <2>2, <3>2, <4>5
    <3> QED BY <3>1, <3>2
  <2> QED BY <2>9, <2>10 DEF Balance
<1> QED BY <1>1, <1>4, <1>5, <1>6, <1>7, VenueMovesOrder

LEMMA RecordBalance ==
  ASSUME Base, Account, Unfilled, Balance, pc \in {"record", "reconcile"}, Record(report),
         UNCHANGED <<order, shares>>
  PROVE  Balance'
<1> DEFINE b == ledger.book
           c == ledger'.book
           before(s, except) == BookedSave(order, b.qty, s, except)
           after(s, except) == BookedSave(order, c.qty, s, except)
<1>1. mem = ledger /\ Genuine(report) /\ report \in Reports
  BY DEF Base, Durable, Typing, Situation, ReportSteps, Account, InHand
<1>2. PICK r \in Reports : r = report
  BY <1>1
<1>3. CASE c = b
  BY <1>3 DEF Balance, BookedSave
<1>4. CASE c # b
  <2>1. c = ApplyReport(b, r)
    BY <1>1, <1>2, <1>4 DEF Record, HydratedReport, Base, Typing, TypeOK, KernelStates
  <2>2. IsFill(r)
    BY <1>1, <1>2, <1>4, <2>1 DEF ApplyReport, Genuine
  <2>3. PICK k \in Keys, s \in Symbols :
          /\ k = r.key /\ s = order[k].symbol /\ k \in PendingOrders(ledger)
          /\ order[k] # None /\ order[k] \in VenueOrders
          /\ s = ledger.intent[k].symbol /\ b.qty[k] <= r.qty
          /\ c.qty[k] = r.qty /\ \A j \in Keys \ {k} : c.qty[j] = b.qty[j]
          /\ \A t \in Symbols \ {s} : c.pos[t] = b.pos[t]
          /\ order[k].side = "BUY"  => c.pos[s] = b.pos[s] + (r.qty - b.qty[k])
          /\ order[k].side = "SELL" => c.pos[s] = b.pos[s] - (r.qty - b.qty[k])
    <3>1. r.key \in Keys /\ r.key \in PendingOrders(ledger)
      BY <1>1, <1>2 DEF Reports, Genuine
    <3>2. order[r.key] # None => order[r.key].symbol \in Symbols
      BY <3>1 DEF Base, Typing, TypeOK, VenueOrders
    <3> HIDE DEF b, c
    <3> QED BY <1>1, <1>2, <2>1, <2>2, <3>1, <3>2, RecordedFill DEF Base, b
  <2>4. /\ b.qty[k] \in Nat /\ r.qty \in Nat /\ order[k].filled \in Nat
        /\ b.pos[s] \in Nat /\ shares[s] \in Int /\ order[k].side \in {"BUY", "SELL"}
    BY <2>3 DEF Base, Typing, TypeOK, KernelStates, Books, Reports, VenueOrders, OrderSide
  <2>5. before(s, {k}) =>
          /\ order[k].side = "BUY"  => b.pos[s] + (order[k].filled - b.qty[k]) = shares[s]
          /\ order[k].side = "SELL" => b.pos[s] - (order[k].filled - b.qty[k]) = shares[s]
    BY <2>3 DEF Balance
  <2>6. before(s, {k}) /\ r.qty = order[k].filled => c.pos[s] = shares[s]
    <3> HIDE DEF b, c, before
    <3> QED BY <2>3, <2>4, <2>5
  <2>7. before(s, {k}) =>
          /\ order[k].side = "BUY"  => c.pos[s] + (order[k].filled - c.qty[k]) = shares[s]
          /\ order[k].side = "SELL" => c.pos[s] - (order[k].filled - c.qty[k]) = shares[s]
    <3> HIDE DEF b, c, before
    <3> QED BY <2>3, <2>4, <2>5
  <2> HIDE DEF b, c
  <2>8. \A t, e : t # s \/ k \in e => (after(t, e) => before(t, e))
    BY <2>3 DEF BookedSave
  <2>9. \A e : k \notin e /\ after(s, e) => r.qty = order[k].filled
    BY <2>3 DEF BookedSave
  <2>10. after(s, {}) => before(s, {k})
    BY <2>3 DEF BookedSave
  <2>11. \A t \in Symbols : after(t, {}) => c.pos[t] = shares[t]
    BY <2>3, <2>6, <2>8, <2>9, <2>10 DEF Balance, b
  <2>12. ASSUME NEW j \in Keys, order[j] # None, after(order[j].symbol, {j})
         PROVE  LET held == c.pos[order[j].symbol]
                    more == order[j].filled - c.qty[j]
                IN  /\ order[j].side = "BUY"  => held + more = shares[order[j].symbol]
                    /\ order[j].side = "SELL" => held - more = shares[order[j].symbol]
    <3>1. order[j] \in VenueOrders /\ order[j].symbol \in Symbols /\ order[j].filled \in Nat
      BY <2>12 DEF Base, Typing, TypeOK, VenueOrders
    <3>2. CASE order[j].symbol # s
      <4>1. before(order[j].symbol, {j}) /\ j # k /\ c.qty[j] = b.qty[j]
            /\ c.pos[order[j].symbol] = b.pos[order[j].symbol]
        BY <2>3, <2>8, <2>12, <3>1, <3>2
      <4> QED BY <2>12, <4>1 DEF Balance, b
    <3>3. CASE j = k
      BY <2>3, <2>7, <2>8, <2>12, <3>3
    <3>4. CASE j # k /\ order[j].symbol = s
      <4>1. r.qty = order[k].filled
        BY <2>9, <2>12, <3>4
      <4>2. CASE b.qty[j] = order[j].filled
        <5>1. before(s, {k})
          BY <2>3, <2>12, <3>4, <4>2 DEF BookedSave
        <5>2. c.pos[s] = shares[s] /\ c.qty[j] = order[j].filled /\ shares[s] \in Int
          BY <2>3, <2>4, <2>6, <3>4, <4>1, <4>2, <5>1
        <5> QED BY <3>1, <3>4, <5>2
      <4>3. CASE b.qty[j] # order[j].filled
        <5>1. ledger.status[j] \notin Terminal
          BY <2>12, <4>3, ClosedBooked DEF Booked, b
        <5>2. ledger.intent[j] # None /\ ledger.intent[j].symbol = s
          BY <2>12, <3>4 DEF Base, Submission, Account, Reported
        <5>3. j \in PendingOrders(ledger)
          BY <5>1, <5>2 DEF PendingOrders
        <5> QED BY <2>3, <3>4, <5>2, <5>3 DEF Account, OneEach
      <4> QED BY <4>2, <4>3
    <3> QED BY <3>2, <3>3, <3>4
  <2> QED BY <2>11, <2>12 DEF Balance, c
<1> QED BY <1>3, <1>4

LEMMA NextBalance ==
  ASSUME ~CancelsAfterFills, Base, Covered, Account, Unfilled, Balance, [RuntimeNext]_allVars
  PROVE  Unfilled' /\ Balance'
<1>1. ASSUME UNCHANGED <<order, shares>>, ledger'.book = ledger.book PROVE Unfilled' /\ Balance'
  BY <1>1 DEF Unfilled, Balance, BookedSave
<1>2. ASSUME NEW k \in Keys, VenueMoves(k) PROVE Unfilled' /\ Balance'
  BY <1>2, VenueUnfilled, VenueBalance DEF VenueMoves, Base
<1>3. CASE RecordSubmission \/ Reconcile
  <2>1. /\ pc \in {"record", "reconcile"} /\ UNCHANGED <<order, shares>>
        /\ Record(report) \/ ledger' = ledger
    BY <1>3 DEF RecordSubmission, RecordReport, Reconcile, At, venueVars
  <2>2. Unfilled'
    BY <2>1 DEF Unfilled
  <2> QED BY <1>1, <2>1, <2>2, RecordBalance
<1>4. CASE SettleSubmission \/ SettleReconciliation \/ Validate \/ MarkSubmitting
  <2>1. UNCHANGED <<order, shares>> /\ ledger'.book = ledger.book
    BY <1>4 DEF SettleSubmission, SettleReconciliation, Settle, Validate, MarkSubmitting, Advance,
                Transition, HydratedTransition, venueVars, Base, Typing, TypeOK, KernelStates
  <2> QED BY <1>1, <2>1
<1>5. CASE Decide \/ CreateIntent \/ HandleNext
  <2>1. UNCHANGED <<order, shares>>
    BY <1>5 DEF Decide, CreateIntent, HandleNext, Receive, venueVars
  <2>2. ledger'.book = ledger.book
    BY <1>5 DEF Decide, HydratedDecision, CreateIntent, HydratedTransition, HydratedIntent,
                HandleNext, Receive, HydratedProposal, Base, Typing, TypeOK, KernelStates
  <2> QED BY <1>1, <2>1, <2>2
<1>6. CASE SubmitRaises \/ Submit \/ ReplyKnown \/ ReplyUnknown \/ ReplyRaises
  BY <1>1, <1>6 DEF SubmitRaises, Submit, ReplyKnown, ReplyUnknown, ReplyRaises, venueVars
<1>7. ASSUME End PROVE Unfilled' /\ Balance'
  BY <1>1, <1>7 DEF End, Stop, venueVars
<1>8. CASE \/ Launch \/ (\E k \in Keys : LookUpPending(k) \/ NotFound(k)) \/ FetchPositions
           \/ Guard \/ SkipCycle \/ BeginCycle \/ CompleteCycle \/ FinishBootstrap \/ Uncaught
           \/ Killed \/ NextBar \/ UNCHANGED allVars
  BY <1>1, <1>7, <1>8
     DEF Launch, Start, LookUpPending, LookUp, NotFound, FetchPositions, Guard, SkipCycle,
         BeginCycle, CompleteCycle, FinishBootstrap, Uncaught, Killed, Crash, NextBar, allVars,
         vars, kernelVars, venueVars
<1> QED BY <1>2, <1>3, <1>4, <1>5, <1>6, <1>8 DEF RuntimeNext, RunStep, HandlerStep

\* As long as the exchange cancels no order it has partly filled, the recorded positions converge
\* to the actual ones: whatever was killed, lost or recorded late, once no order is pending and
\* no request in flight the book is the account (reconcile_execution_report,
\* expected_position_quantities).  With such cancellations it is not: MCKernelLostFills.
THEOREM BookConverges ==
  ASSUME ~CancelsAfterFills, NeverSuspends
  PROVE  RuntimeSpec => []SettledBooksMatch
<1>1. RuntimeInit => Unfilled /\ Balance
  BY DEF RuntimeInit, Init, VenueInit, EmptyState, EmptyBook, Unfilled, Balance, BookedSave
<1>2. Base /\ Covered /\ Account /\ Unfilled /\ Balance /\ [RuntimeNext]_allVars
        => Unfilled' /\ Balance'
  BY NextBalance
<1>3. Base /\ Account /\ Unfilled /\ Balance => SettledBooksMatch
  <2> SUFFICES ASSUME Base, Account, Unfilled, Balance, PendingOrders(ledger) = {}
               PROVE  ledger.book.pos = shares
    BY DEF SettledBooksMatch
  <2>1. ASSUME NEW k \in Keys, order[k] # None PROVE ledger.book.qty[k] = order[k].filled
    <3>1. ledger.intent[k] # None /\ ledger.status[k] \in Terminal
      BY <2>1 DEF Base, Submission, PendingOrders
    <3> QED BY <2>1, <3>1, ClosedBooked DEF Booked
  <2>2. \A s \in Symbols : ledger.book.pos[s] = shares[s]
    BY <2>1 DEF Balance, BookedSave
  <2> QED BY <2>2 DEF Base, Typing, TypeOK, KernelStates, Books
<1> QED BY <1>1, <1>2, <1>3, RuntimeAccount, PTL DEF RuntimeSpec

\* Under the same conditions no run of the program meets a ledger whose replay raises, with sales
\* among its orders (PortfolioReconciler.replay_events, _available_cash).
THEOREM RunsReplay ==
  ASSUME IsFiniteSet(Keys), ~CancelsAfterFills, NeverSuspends,
         NEW dearest \in Nat, Bounded(dearest), EstimatesCover(dearest)
  PROVE  RuntimeSpec => []LedgerReplayable
<1>1. ledger.book.cash >= 0 /\ ~ledger.book.broken => LedgerReplayable
  BY DEF LedgerReplayable, Replayable
<1>2. Spec => [](ledger.book.cash >= 0)
  BY CashKept
<1> QED BY <1>1, <1>2, ReplayReturns, Implementation, PTL

=============================================================================
