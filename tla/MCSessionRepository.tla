------------------------- MODULE MCSessionRepository -------------------------
(* Model values for SessionRepository. *)
EXTENDS SessionRepository

CONSTANTS s1, s2, g1, g2, w1, w2

OneSession  == {s1}
TwoSessions == {s1, s2}
OneReader   == {g1}
TwoReaders  == {g1, g2}
OneWriter   == {w1}
TwoWriters  == {w1, w2}
==============================================================================
