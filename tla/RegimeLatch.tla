----------------------------- MODULE RegimeLatch -----------------------------
(***************************************************************************)
(* What M7 means by regime persistence, as a machine that is never         *)
(* restarted: two counters, moved by every completed benchmark bar.        *)
(***************************************************************************)
EXTENDS Integers

CONSTANT Confirmation       \* bars that confirm an increase of exposure

VARIABLES
  calm,             \* bars since the last adverse one
  on,               \* RISK_ON bars in a row
  effective         \* the regime that sets the budget

latchVars == <<calm, on, effective>>

Adverse == {"RISK_OFF", "SHOCK"}

Raised(n) == IF n < Confirmation THEN n + 1 ELSE n

\* Before the first bar nothing has confirmed anything.
LatchInit == calm = Confirmation /\ on = 0 /\ effective = "NEUTRAL"

\* Adverse bars act at once, the rest waits for the counters.
Observe(raw) ==
  /\ calm' = IF raw \in Adverse THEN 0 ELSE Raised(calm)
  /\ on' = IF raw = "RISK_ON" THEN Raised(on) ELSE 0
  /\ effective' = IF raw \in Adverse THEN raw
                  ELSE IF on' = Confirmation THEN "RISK_ON"
                  ELSE IF calm' < Confirmation THEN "RISK_OFF"
                  ELSE "NEUTRAL"

LatchNext == \E raw \in {"RISK_ON", "NEUTRAL"} \cup Adverse : Observe(raw)

LatchSpec == LatchInit /\ [][LatchNext]_latchVars

=============================================================================
