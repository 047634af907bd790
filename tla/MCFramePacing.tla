--------------------------- MODULE MCFramePacing ---------------------------
(* Hosts and users for model checking FramePacing.  A frame lasts two and a *)
(* half milliseconds, and one eighth of a second is 6.4 frames.             *)
EXTENDS FramePacing

AnyHost == {0, 1, 2, 4}
FastHost == {0, 1, 2}
SlowHost == {3, 4}
AllHosts == {AnyHost, FastHost}
SlowHosts == {SlowHost}

Nobody == {{}}
Everybody == {{}, {"WarpMode", "Speed", "Pause"}}

SomeCalls == {0, 1, 4, 9}
ShortCalls == {0}
Idle == {0, 1, 22}
Punctual == {0}
SometimesLate == {0, 1}
=============================================================================
