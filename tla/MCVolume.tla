------------------------------ MODULE MCVolume ------------------------------
(* Small instances of Volume for TLC. *)
EXTENDS Volume

\* A stereo and a mono format, a volume at the upper limit and one beyond it.
AnyClients == {<<0, 2>>, <<1, 1>>, <<3>>}

\* Other clients that keep to the limits.
ModestClients == {<<0, 2>>, <<1, 1>>}
=============================================================================
