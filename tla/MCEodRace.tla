------------------------------- MODULE MCEodRace -------------------------------
(* Two symbols of a cash segment or of option strategies.                    *)
EXTENDS EodRace
CONSTANTS s1, s2
MCSegments == {{"equity"}, {"option", "spread"}}
===============================================================================
