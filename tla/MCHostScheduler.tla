-------------------------- MODULE MCHostScheduler --------------------------
(* Two FPGAs of two slots, and images that offer one app twice, two apps,  *)
(* or one app in fewer slots than another image does.                      *)
EXTENDS HostScheduler, TLC

CONSTANTS a, b, unknown

MCAppIds == {a, b, unknown}

MCImage(x, y) == (0 :> x) @@ (1 :> y)

\* Image 0 is booted; app b is on images 1 and 2, and 2 is its replacement.
MCLibrary == (0 :> MCImage(a, a)) @@ (1 :> MCImage(b, Null)) @@ (2 :> MCImage(b, a))
=============================================================================
