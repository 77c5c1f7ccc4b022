---------------------------- MODULE AppendOnlyLog ----------------------------
(***************************************************************************)
(* What LedgerInterface promises to whoever holds a ledger: what was       *)
(* recorded stays recorded, in its order, and a reader sees all of it or   *)
(* gets no ledger at all.  An event whose append was interrupted may have  *)
(* been recorded or not.                                                   *)
(***************************************************************************)
EXTENDS Integers, Sequences

VARIABLES
  log,              \* everything recorded
  open,             \* somebody holds the ledger
  view              \* what the holder reads; nothing while there is none

logVars == <<log, open, view>>

LogInit == log = <<>> /\ open = FALSE /\ view = <<>>

OpenLog == ~open /\ open' = TRUE /\ view' = log /\ UNCHANGED log

\* One more event, behind all there were.
Grows == Len(log') = Len(log) + 1 /\ SubSeq(log', 1, Len(log)) = log

\* An event is recorded and its holder reads it.
RecordEvent ==
  /\ open /\ Grows
  /\ view' = log'
  /\ UNCHANGED open

\* The holder is gone, perhaps with an event on the way that is recorded all the same.
CloseLog ==
  /\ open /\ open' = FALSE
  /\ view' = <<>>
  /\ UNCHANGED log \/ Grows

LogNext == OpenLog \/ RecordEvent \/ CloseLog

LogSpec == LogInit /\ [][LogNext]_logVars

=============================================================================
