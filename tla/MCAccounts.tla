------------------------------ MODULE MCAccounts -----------------------------
(* TLC instance of Accounts: one person and the demo account, each of which *)
(* may exist already, and one tab with two mutations under way at a time,   *)
(* which begins on one of the guests' pages.                                *)
EXTENDS Accounts

CONSTANTS person, tabA, r1, r2
MCUsers == {person}
MCTabs == {tabA}
MCRequests == {r1, r2}
MCOpened == {"/login", "/signup", "/forgot-password"}
=============================================================================
