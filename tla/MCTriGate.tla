------------------------------ MODULE MCTriGate ------------------------------
(* Instances of TriGate for TLC.                                           *)
EXTENDS TriGate, TLC

CONSTANTS user, d1, d2, home, away, c1, c2, c3, k1, k2

Network(signature, rate, severity) ==
  [type |-> "network", severity |-> severity, signature |-> signature,
   rate |-> rate, anomaly |-> FALSE]
Login(biometric, mismatch) ==
  [type |-> "identity", severity |-> Low, biometric |-> biometric,
   unknownPlace |-> FALSE, anomaly |-> FALSE, mismatch |-> mismatch]
Kind(e, c, k, who) ==
  [event |-> e, content |-> c, key |-> k, entity |-> who,
   isUser |-> FALSE, device |-> None, place |-> None]
By(kind, device, place) ==
  [kind EXCEPT !.isUser = TRUE, !.device = device, !.place = place]

\* What one user does: a probe and an exploit of one port, and a poor login.
Attack ==
  {By(Kind(Network("hold", Calm, Low), c1, k1, user), None, None),
   By(Kind(Network("block", Calm, Low), c2, k1, user), None, None),
   By(Kind(Login("low", FALSE), c3, k2, user), d1, home)}

\* Logins of one user from two devices and places.
Logins ==
  {By(Kind(Login("good", TRUE), c1, k1, user), d1, home),
   By(Kind(Login("low", FALSE), c2, k1, user), d2, away)}
==============================================================================
