----------------------------- MODULE MCRulesClaims -----------------------------
(* RulesClaims on a table of one solid, one stripe and the 8-ball. *)
EXTENDS RulesClaims

MCSolids == {1}
MCStripes == {9}
MCClientReports == {Unreported}
================================================================================
