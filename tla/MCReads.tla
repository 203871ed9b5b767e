------------------------------- MODULE MCReads -------------------------------
(* Instances of Reads: three payments, two of one merchant and of both      *)
(* directions, one of another.                                              *)
EXTENDS Reads

MC_Direction == <<"DEBIT", "CREDIT", "DEBIT">>
MC_Amount == <<1, 2, 4>>
MC_Routing == <<3, 4, 5>>
MC_MerchantOf == <<1, 1, 2>>
=============================================================================
