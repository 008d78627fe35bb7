------------------------------ MODULE MCTopUp ------------------------------
(* Small instances of TopUp: one order of each method, two handlers.        *)
EXTENDS TopUp, TLC

CONSTANTS epay1, stripe1, creem1, code1, h1, h2, n1, n2

AllMethods ==
    [o \in Orders |-> CASE o = epay1   -> "epay"
                       [] o = stripe1 -> "stripe"
                       [] o = creem1  -> "creem"
                       [] OTHER       -> "code"]
MCAmount == [o \in Orders |-> 2]
MCMoney  == [o \in Orders |-> 1]

OneServer  == [h \in Handlers |-> n1]
TwoServers == h1 :> n1 @@ h2 :> n2
=============================================================================
