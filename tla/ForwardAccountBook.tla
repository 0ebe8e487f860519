------------------------- MODULE ForwardAccountBook -------------------------
(***************************************************************************)
(* The committed state of the baseline account, read as a CashBook.        *)
(* Pending and skipped marks are idle trades; the account that was not yet *)
(* created is a funded book without trades.                                *)
(***************************************************************************)
EXTENDS ForwardAccount

Stage(s) == CASE s \in {"NONE", "PENDING_ENTRY", "SKIPPED"} -> "idle"
              [] s = "OPEN"      -> "held"
              [] s = "UNPRICED"  -> "stuck"
              [] s = "UNSETTLED" -> "sold"
              [] s = "CLOSED"    -> "settled"

Book == INSTANCE CashBook WITH
  Trades <- Marks, Funding <- StartingCash, Slots <- MaxPositions,
  cash <- IF saved.activatedAt = None THEN StartingCash ELSE saved.settled,
  unsettled <- saved.unsettled,
  stage <- [m \in Marks |-> Stage(saved.status[m])],
  cost <- [m \in Marks |-> saved.detail[m].debit],
  proceeds <- [m \in Marks |-> saved.detail[m].sale]

\* The handler of advance_account, with its loops, its retries and its rolled
\* back scans, implements the cash book: every commit is one batch or nothing.
ImplementsCashBook == Book!Spec
=============================================================================
