--------------------------- MODULE MCCredentials ---------------------------
(***************************************************************************)
(* Credentials with two setup tokens, an access URL that was granted to    *)
(* some other program and is pasted, and as many registrations as a delete *)
(* and a switch of keys call for.                                          *)
(***************************************************************************)
EXTENDS Credentials, TLC

CONSTANTS url1, url2, pasted, tok1, tok2, u1, u2, u3

MCTokens == {tok1, tok2}
MCUrls == {url1, url2, pasted}
MCGrant == tok1 :> url1 @@ tok2 :> url2
MCUsers == {u1, u2, u3}
\* Users are names that nothing else tells apart.
UserSymmetry == Permutations(MCUsers)
=============================================================================
