---------------------------- MODULE MCPaymentOrders ----------------------------
(* Instances of PaymentOrders for TLC.                                      *)
EXTENDS PaymentOrders

\* Amounts that are told apart, and apart from the stake and the bonus.
MCAmount == [o \in Orders |-> CASE o = "upiIn" -> 30
                                [] o = "gateIn" -> 50
                                [] o = "upiOut" -> 40
                                [] OTHER -> 60]

================================================================================
