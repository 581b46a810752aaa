---------------------------- MODULE MCNl6Loadtest ----------------------------
(***************************************************************************)
(* Nl6Loadtest for TLC: the summaries nl6 may report.  One device is asked *)
(* for one record, so a full window sends one.                             *)
(***************************************************************************)
EXTENDS Nl6Loadtest

Summary(emitted, in_window, drain, dropped, suppressed) ==
    [f \in LedgerFields |->
        CASE f = "emitted" -> emitted [] f = "in_window" -> in_window [] f = "drain" -> drain
          [] f = "send_failures" -> 0 [] f = "dropped" -> dropped
          [] f = "suppressed_pre_window" -> suppressed]

MCLedgers ==
    {Summary(2, 0, 1, 0, 1),  \* one sent in the drain, one suppressed: full
     Summary(1, 0, 0, 1, 0),  \* none sent, one dropped
     Summary(0, 1, 0, 0, 0)}  \* the identity does not hold
=============================================================================
