----------------------------- MODULE MCRelayHub -----------------------------
(* Small instances of RelayHub for TLC. *)
EXTENDS RelayHub, TLC

CONSTANTS m1, m2, d1, d2

\* Two messages to one recipient.
OneWay == m1 :> d2 @@ m2 :> d2
\* One message to each of two recipients.
BothWays == m1 :> d2 @@ m2 :> d1

OneMsg == m1 :> d2

Symmetry == Permutations(Conn)
=============================================================================
