---------------------------- MODULE DealExchange ----------------------------
(***************************************************************************)
(* The trade workflow implements the exchange its two parties agreed to.   *)
(***************************************************************************)
EXTENDS Deal

outcome  == IF contract.status \in Closed THEN contract.status ELSE "open"
goods    == IF shipment.milestone = "delivered" THEN "arrived"
            ELSE IF Dispatched(shipment) THEN "moving" ELSE "origin"
title    == IF holding = "transferred" THEN "buyer" ELSE "seller"

E == INSTANCE Exchange WITH Price <- Total, received <- payment.confirmed,
                            outcome <- outcome, goods <- goods,
                            accepted <- delivery.accepted, title <- title

\* Title passes with the last of delivery, payment and acceptance, a started trade is
\* never called off, and a closed one never changes: every step of the workflow is a
\* step of the exchange or changes nothing the parties exchange.
ImplementsExchange == E!Fair
=============================================================================
