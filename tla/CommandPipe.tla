---------------------------- MODULE CommandPipe ----------------------------
(***************************************************************************)
(* What the accelerometer driver promises to its callers: register         *)
(* commands are served by the sensor one at a time, in the order in which  *)
(* they were accepted, none twice and none skipped.  A failed transfer     *)
(* loses its command; a pipe that was filled to its capacity may collapse. *)
(***************************************************************************)
EXTENDS Naturals, Sequences

CONSTANTS Command,   \* the commands
          Capacity   \* how many of them the queue behind the sensor takes

VARIABLES pipe,       \* commands accepted and not served, oldest first
          collapsed   \* the pipe overflowed and was read

pipeVars == << pipe, collapsed >>

Init == pipe = << >> /\ collapsed = FALSE

\* A command is accepted behind all the others, whose order stays.
Submit ==
  /\ Len(pipe') = Len(pipe) + 1
  /\ pipe'[Len(pipe')] \in Command
  /\ SubSeq(pipe', 1, Len(pipe)) = pipe
  /\ UNCHANGED collapsed

\* The oldest command is served, or its transfer fails and it is gone.
Serve ==
  /\ pipe # << >>
  /\ pipe' = Tail(pipe)
  /\ UNCHANGED collapsed

\* One interrupt may both fill the last place and read the pipe.
Collapse ==
  /\ Capacity <= Len(pipe) + 1
  /\ collapsed' = TRUE
  /\ pipe' = << >>

Next == ~collapsed /\ (Submit \/ Serve \/ Collapse)

Spec == Init /\ [][Next]_pipeVars
=============================================================================
