-------------------------------- MODULE Portal --------------------------------
(***************************************************************************)
(* The web portal shows one page at a time: a list, the webhook endpoints  *)
(* or the merchants, each over the part of the API behind it; or none, and *)
(* others use the administrators' API.                                     *)
(***************************************************************************)
EXTENDS ListPages, WebhooksPage, MerchantsPage

VARIABLE page  \* the page that is open: "lists", "webhooks", "merchants" or "none"

portalVars == <<page, listVars, vars, pageVars, merchantVars, merchantPageVars>>

(* The state of a page that is not open, and of what is behind it.         *)
Init_Portal ==
  /\ page \in {"lists", "webhooks", "merchants", "none"}
  /\ IF page = "lists" THEN ListOpened ELSE ListsClosed
  /\ IF page = "webhooks" THEN WebhooksOpened ELSE Init
  /\ PageOpened
  /\ MerchantsBegin /\ MerchantsOpened
  /\ page \in {"lists", "webhooks"} => hashed[Existing] = 0

(* Whoever uses the API otherwise is told the keys that it returns.         *)
OtherClients ==
  /\ AdminNext
  /\ told' = told \cup {issued'}
  /\ UNCHANGED <<screen, lost, queries, doing, requests, losses>>

Next_Portal ==
  /\ UNCHANGED page
  /\ \/ /\ page = "lists" /\ ListNext
        /\ UNCHANGED <<vars, pageVars, merchantVars, merchantPageVars>>
     \/ /\ page = "webhooks" /\ PageNext
        /\ UNCHANGED <<listVars, merchantVars, merchantPageVars>>
     \/ /\ page = "merchants" /\ MerchantsNext
        /\ UNCHANGED <<listVars, vars, pageVars>>
     \/ /\ page = "none" /\ OtherClients
        /\ UNCHANGED <<listVars, vars, pageVars>>

PortalSpec == Init_Portal /\ [][Next_Portal]_portalVars
=============================================================================
