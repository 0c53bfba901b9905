------------------------------ MODULE MCAccounts ------------------------------
EXTENDS Accounts, TLC

CONSTANTS u1, u2, s1, s2, b1, b2, h1, h2

\* A session of each user; a browser at each address.
OneEach == s1 :> u1 @@ s2 :> u2
TwoHosts == b1 :> h1 @@ b2 :> h2
=============================================================================
