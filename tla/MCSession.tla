----------------------------- MODULE MCSession ------------------------------
(* Session on a small instance: two tabs of one browser.                   *)
EXTENDS Session, TLC

CONSTANTS t1, t2, k1, k2

TwoTabs == {t1, t2}
TwoTokens == {k1, k2}

=============================================================================
