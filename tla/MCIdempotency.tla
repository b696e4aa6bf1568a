----------------------------- MODULE MCIdempotency -----------------------------
(***************************************************************************)
(* Small instances of Idempotency for TLC.                                 *)
(***************************************************************************)
EXTENDS Idempotency, TLC

CONSTANTS k1, k2, p1, p2, u1, u2

\* Two purchases and a top-up share a key, a second top-up has its own.
MixedKeys == p1 :> k1 @@ p2 :> k1 @@ u1 :> k1 @@ u2 :> k2
MixedEndpoints ==
  p1 :> "purchase" @@ p2 :> "purchase" @@ u1 :> "topup" @@ u2 :> "topup"

================================================================================
