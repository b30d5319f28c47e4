--------------------------- MODULE MCArmModeManager ---------------------------
(***************************************************************************)
(* ArmModeManager for TLC.  Each surroundings below lets one part of the   *)
(* robot be busy and keeps the others quiet; a run takes several of them.  *)
(***************************************************************************)
EXTENDS ArmModeManager

Nothing == [s \in Clients |-> {}]
Quiet == [readings |-> {1}, speeds |-> {0, 1}, messages |-> Nothing,
          assessments |-> {}, requests |-> {"hold"}, focuses |-> {"arm", "drive"},
          focusMode |-> "", components |-> {},
          replies |-> {"inactive", "active"}, switches |-> {"ok"}]

\* An operator streams commands, and may leave the focus.
Streaming ==
  [Quiet EXCEPT
     !.readings = {1, 2}, !.requests = {"manual", "hold"},
     !.messages = [Nothing EXCEPT !["manual"] =
                     {[kind |-> "move", at |-> 2, ee |-> TRUE]}]]

\* The TCP producer takes the arm on getting the focus.
TcpEntering ==
  [Quiet EXCEPT
     !.readings = {1, 2}, !.requests = {"tcp_ik"}, !.focuses = {"arm"},
     !.focusMode = "tcp_ik", !.assessments = {[safe |-> TRUE, at |-> 1], None},
     !.messages = [Nothing EXCEPT !["tcp_ik"] = {[kind |-> "stop"]}]]

\* The tool-change executor sends paths with a turn in them, and cancels them.
Way(p, s) == [at |-> p, stop |-> s]
Travelling ==
  [Quiet EXCEPT
     !.readings = {1, 2}, !.requests = {"tool_auto"}, !.focuses = {"arm"},
     !.messages = [Nothing EXCEPT !["tool_auto"] =
       {[kind |-> "path", id |-> "a", ways |-> <<Way(2, FALSE), Way(1, FALSE)>>],
        [kind |-> "cancel", id |-> "a"], [kind |-> "fault"]}]]

\* The gripper is jogged between the executor's own turns.
Jogging ==
  [Quiet EXCEPT
     !.requests = {"tool_auto", "hold"},
     !.messages = [Nothing EXCEPT !["tcp_ik"] = {[kind |-> "jog"]},
                                  !["tool_auto"] = {[kind |-> "ee", id |-> "a"]}]]

\* Controllers come and go, and the components report faults.
Failing ==
  [Quiet EXCEPT
     !.readings = {-1, 1}, !.components = {"rmd", "dxl"},
     !.replies = {"none", "inactive", "active", "down", "wrong", "failed"},
     !.switches = {"ok", "refused"}]

Owning == {Streaming, TcpEntering, Travelling}
Working == {Jogging, Failing}
=============================================================================
