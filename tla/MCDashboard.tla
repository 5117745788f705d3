----------------------------- MODULE MCDashboard -----------------------------
(***************************************************************************)
(* Dashboard with two tabs, two SimpleFIN windows and two jobs.            *)
(***************************************************************************)
EXTENDS Dashboard

CONSTANTS tab1, tab2
TwoTabs == {tab1, tab2}

MCSetups == [access_url : BOOLEAN, partner_keys : BOOLEAN]
=============================================================================
