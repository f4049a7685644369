---------------------------- MODULE MCRevocation ----------------------------
(***************************************************************************)
(* Two processes and one region of three pages, none retyped yet.  The     *)
(* second process holds the region's capability and can pay for one        *)
(* record; the first gets what the second sends it and can pay for three.  *)
(***************************************************************************)
EXTENDS Revocation, TLC

CONSTANTS a, b

MCRun == {<<0, 3>>, <<1, 1>>}
MCInitCaps == (a :> {}) @@ (b :> {})
MCLogCapacity == (a :> 3) @@ (b :> 1)

==============================================================================
