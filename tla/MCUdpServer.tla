------------------------------ MODULE MCUdpServer ------------------------------
(* A small instance of UdpServer for TLC.                                  *)
EXTENDS UdpServer, TLC

MCBodies == {"", "x", "y", "xy", "yx"}

\* Two messages of the same bodies in a different order.
MCContents == (1 :> <<"x", "y">>) @@ (2 :> <<"y", "x">>)

MCUndivided == (1 :> "xy") @@ (2 :> "yx")

MCCopies == (1 :> 2) @@ (2 :> 1)

\* The second reading is past the timeout of what arrives at the first.
MCTimes == {1, 3}
=============================================================================
