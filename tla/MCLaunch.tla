------------------------------ MODULE MCLaunch ------------------------------
(* Instances of Launch for TLC. *)
EXTENDS Launch

Ann == [name |-> "+14155551234", digits |-> "4155551234", email |-> FALSE,
        group |-> FALSE, holds |-> {}]
OneId == {Ann}

\* An edit leaves the user's file, one of root's, or one that others can write.
EditsLeave ==
  {[kind |-> "file", owner |-> "user", access |-> "private"],
   [kind |-> "file", owner |-> "root", access |-> "private"],
   [kind |-> "file", owner |-> "user", access |-> "writable"]}
=============================================================================
