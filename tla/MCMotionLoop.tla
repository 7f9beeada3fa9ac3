---------------------------- MODULE MCMotionLoop ----------------------------
(* Instances of MotionLoop for TLC. *)
EXTENDS MotionLoop

(* An absolute head command and a relative one; until the first of them comes   *)
(* the command is NoCommand.                                                    *)
absolute == [angle |-> 5, send |-> TRUE, change |-> FALSE]
relative == [angle |-> 1, send |-> TRUE, change |-> TRUE]

HeadCommands == {absolute, relative}
=============================================================================
