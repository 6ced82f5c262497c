---------------------------- MODULE MCSourceGate ----------------------------
(***************************************************************************)
(* Small instance of SourceGate for TLC: two guarded lanes and a stock     *)
(* page scraper share the browser, a lane of the quote poll does not; the  *)
(* longest cooldown is reached on the second trip.                         *)
(***************************************************************************)
EXTENDS SourceGate

CONSTANTS history1, history2, stock, poll, eod, quotes, pages

MCSourceOf ==
    [l \in {history1, history2, stock, poll} |->
        CASE l \in {history1, history2} -> eod
          [] l = poll -> quotes
          [] l = stock -> pages]

=============================================================================
