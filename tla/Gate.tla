-------------------------------- MODULE Gate --------------------------------
(***************************************************************************)
(* What a deployment gate is promised about the end of a run, without any  *)
(* file: each output that was asked for is delivered or missed, a missed   *)
(* output takes a pass away and changes no other verdict, and the process  *)
(* exits once with the code of the verdict it is left with.                *)
(***************************************************************************)
EXTENDS Outcome

Outputs == {"transcript", "trust", "facts", "result", "stdout"}
Running == 9      \* no exit code yet

VARIABLES wanted, delivered, missed, verdict, exit

gateVars == <<wanted, delivered, missed, verdict, exit>>

Demoted(v) == IF IsPass(v) THEN "UsageError" ELSE v

GateInit == /\ wanted \in SUBSET Outputs
            /\ delivered = {} /\ missed = {}
            /\ verdict \in Verdicts
            /\ exit = Running

Deliver(o) == /\ exit = Running
              /\ o \in wanted \ (delivered \cup missed)
              /\ delivered' = delivered \cup {o}
              /\ UNCHANGED <<wanted, missed, verdict, exit>>

Miss(o) == /\ exit = Running
           /\ o \in wanted \ (delivered \cup missed)
           /\ missed' = missed \cup {o}
           /\ verdict' = Demoted(verdict)
           /\ UNCHANGED <<wanted, delivered, exit>>

Leave == /\ exit = Running
         /\ wanted = delivered \cup missed
         /\ exit' = ExitCode(verdict)
         /\ UNCHANGED <<wanted, delivered, missed, verdict>>

GateNext == Leave \/ \E o \in Outputs : Deliver(o) \/ Miss(o)

GateSpec == GateInit /\ [][GateNext]_gateVars /\ WF_gateVars(GateNext)

(* A pipeline that proceeds on exit 0 has everything it asked for.         *)
ExitZeroMeansDelivered == exit = 0 => missed = {} /\ delivered = wanted
=============================================================================
