------------------------------ MODULE MCGateway ------------------------------
(***************************************************************************)
(* A small instance of Gateway for TLC.                                    *)
(***************************************************************************)
EXTENDS Gateway

CONSTANTS a, b, right, wrong
=============================================================================
