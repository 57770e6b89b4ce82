------------------------------ MODULE MCEventLoop ------------------------------
(* Small instances of EventLoop for TLC. *)
EXTENDS EventLoop

\* Every state of a client can be reached and left: the line after "register"
\* is data, and refused.
LoopLines == {Command("register"), Command("get image"), Command("exit")}

=============================================================================
