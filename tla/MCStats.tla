------------------------------ MODULE MCStats ------------------------------
(* The aggregator with two names of metrics, interchangeable but for the   *)
(* one that the epoch callback records.                                    *)
EXTENDS StatsdAggregator

CONSTANTS keys, requests

MCNames == {keys, requests}
MCEpochNames == {keys}
=============================================================================
