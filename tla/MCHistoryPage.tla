---------------------------- MODULE MCHistoryPage ----------------------------
(* TLC instance of HistoryPage: two selections, the page opened twice, and  *)
(* two loads by the user, be it by a link or by the form.                    *)
EXTENDS HistoryPage

CONSTANTS s1, s2
MCSelections == {s1, s2}
=============================================================================
