--------------------------- MODULE MCIncidentPage ---------------------------
(***************************************************************************)
(* Two incidents with an endpoint, the one fetched with the page and one   *)
(* of mock data only; four fetches, so that one can fail and be retried    *)
(* while the other is in flight, and one reload.                           *)
(***************************************************************************)
EXTENDS IncidentPage

MCLive == {"INC-2420", "INC-2421"}
MCHero == "INC-2419"
MCOthers == {"INC-2418"}
=============================================================================
