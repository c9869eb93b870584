---------------------------- MODULE MCSyncReplica ----------------------------
(* Two devices, the relay, two local commits and at most one fault, a       *)
(* failed apply with the reconnect that repairs it; and a third device that *)
(* pulls what two others push, in either order.                             *)
EXTENDS SyncReplica

CONSTANTS a, b

All == {"commit", "connect", "pull"}

NoFault == [writes |-> 2, drops |-> 0, crashes |-> 0, failures |-> 0, prunes |-> 0,
            faulty |-> {}, part |-> <<All, All, {}>>, start |-> "shared", ahead |-> {}]

SmallScopes ==
    { [NoFault EXCEPT !.start = "empty", !.part = <<{"commit", "connect"}, All, {}>>],
      [NoFault EXCEPT !.drops = 1, !.faulty = {2}, !.part = <<{"commit", "connect"}, All, {}>>],
      [NoFault EXCEPT !.crashes = 1, !.faulty = {2}, !.ahead = {1}],
      [NoFault EXCEPT !.failures = 1, !.drops = 1, !.faulty = {2}, !.part = <<{"commit", "connect"}, All, {}>>],
      [NoFault EXCEPT !.prunes = 1, !.ahead = {0}],
      [NoFault EXCEPT !.start = "deleted", !.writes = 1, !.ahead = {2},
                      !.part = <<{"connect"}, {"commit", "connect"}, {"connect", "pull"}>>] }
=============================================================================
