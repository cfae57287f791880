------------------------------ MODULE Loader ------------------------------
(* What a partition boot record promises its caller: it copies the sectors  *)
(* of one file, in file order, to the load address, and passes control to   *)
(* the copy only when it is complete; on any trouble it stops instead.      *)
EXTENDS Naturals, Sequences

VARIABLES file,     \* the sectors of the OS loader, <<>> when there is none
          loaded,   \* what has been copied to the load address
          status    \* "loading", "running" or "stopped"
vars == <<file, loaded, status>>

Init ==
  /\ loaded = <<>>
  /\ status = "loading"

Load ==
  /\ status = "loading"
  /\ Len(loaded) < Len(file)
  /\ loaded' = Append(loaded, file[Len(loaded) + 1])
  /\ UNCHANGED <<file, status>>

Run ==
  /\ status = "loading"
  /\ file # <<>>
  /\ loaded = file
  /\ status' = "running"
  /\ UNCHANGED <<file, loaded>>

Stop ==
  /\ status = "loading"
  /\ status' = "stopped"
  /\ UNCHANGED <<file, loaded>>

Next == Load \/ Run \/ Stop

Spec == Init /\ [][Next]_vars
FairSpec == Spec /\ WF_vars(Next)
=============================================================================
