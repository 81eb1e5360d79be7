------------------------- MODULE MCReprocessShutdown -------------------------
EXTENDS ReprocessShutdown

CONSTANTS d1, d2,  \* expiration dates
          i1, i2   \* issuers

(* Two date documents; the first date has two issuers, the second one.    *)
MCDates == <<d1, d2>>
MCIssuersOf == (d1 :> <<i1, i2>>) @@ (d2 :> <<i1>>)
=============================================================================
