----------------------------- MODULE MCLedgerFile -----------------------------
(***************************************************************************)
(* A bounded instance of LedgerFile: files of up to five lines, so that a  *)
(* line can be lost or doubled at the front, in the middle and near the    *)
(* end, before and after a restart.                                        *)
(***************************************************************************)
EXTENDS LedgerFile
=============================================================================
