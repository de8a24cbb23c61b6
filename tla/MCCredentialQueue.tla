--------------------------- MODULE MCCredentialQueue ---------------------------
(* Constants for the model checker, and a history variable for the fairness *)
(* between sources: whom each ready source has let pass since it last had   *)
(* its turn.                                                                *)
EXTENDS CredentialQueue, TLC

CONSTANTS j1, j2, j3, j4

MCFour  == {j1, j2, j3, j4}
MCDelay == {1}
Requests == Permutations(MCFour)

VARIABLE passed

hvars == <<vars, passed>>

(* The source whose request the step starts, if it starts one. *)
Served == {s \in Source : \E w \in Worker : running[w] = Idle /\ running'[w].source = s}

HInit == Init /\ passed = [s \in Source |-> {}]

HNext ==
    /\ Next
    /\ passed' = [r \in Source |->
          IF r \in Served \/ waiting'[r] = <<>> \/ notBefore'[r] > now'
          THEN {} ELSE passed[r] \cup Served]

HSpec == HInit /\ [][HNext]_hvars

(* No source is served twice while another one is ready and not told to wait: *)
(* a burst of one source never keeps the others behind it (the round robin of  *)
(* Pump from upper_bound(last_source_)).                                       *)
RoundRobin ==
    [][\A r \in Source : Served \cap passed[r] # {} =>
         r \in Served \/ waiting'[r] = <<>> \/ notBefore'[r] > now']_hvars
=============================================================================
