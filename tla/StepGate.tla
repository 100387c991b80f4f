------------------------------ MODULE StepGate ------------------------------
(***************************************************************************)
(* What run control promises, independently of how it is built: a gate     *)
(* in front of every integration step.  Cancel, Pause, Resume and Step are *)
(* single, indivisible requests.  A held gate lets nobody through; a Step  *)
(* request leaves the gate held and buys one passage; a cancelled gate is  *)
(* never entered again.                                                    *)
(*                                                                         *)
(* SimControl.tla, whose requests are several atomic stores racing with a  *)
(* polling integrator, is shown to implement this specification.           *)
(***************************************************************************)

VARIABLES
  held,       \* the gate is closed
  credit,     \* a Step request that has not been spent
  cancelled,  \* Stop was requested
  phase       \* where the integrator is: see Phases

gateVars == <<held, credit, cancelled, phase>>

Phases == {"work", "ask", "granted", "stopped"}

GateTypeOK ==
  /\ held \in BOOLEAN
  /\ credit \in BOOLEAN
  /\ cancelled \in BOOLEAN
  /\ phase \in Phases

GateInit ==
  /\ held = FALSE
  /\ credit = FALSE
  /\ cancelled = FALSE
  /\ phase = "work"

-----------------------------------------------------------------------------
(* Requests of the user interface. *)

Cancel ==
  /\ cancelled' = TRUE
  /\ held' = FALSE
  /\ credit' = FALSE
  /\ UNCHANGED phase

Pause ==
  /\ ~cancelled
  /\ held' = TRUE
  /\ UNCHANGED <<credit, cancelled, phase>>

Resume ==
  /\ ~cancelled
  /\ held' = FALSE
  /\ credit' = FALSE
  /\ UNCHANGED <<cancelled, phase>>

Step ==
  /\ ~cancelled
  /\ held' = TRUE
  /\ credit' = TRUE
  /\ UNCHANGED <<cancelled, phase>>

-----------------------------------------------------------------------------
(* The integrator. *)

Ask ==
  /\ phase = "work"
  /\ phase' = "ask"
  /\ UNCHANGED <<held, credit, cancelled>>

\* An open gate is passed freely, a held one against the credit.
Grant ==
  /\ phase = "ask"
  /\ held => credit
  /\ credit' = FALSE
  /\ phase' = "granted"
  /\ UNCHANGED <<held, cancelled>>

\* The granted passage is taken only if nobody has cancelled since.
Enter ==
  /\ phase = "granted"
  /\ ~cancelled
  /\ phase' = "work"
  /\ UNCHANGED <<held, credit, cancelled>>

\* A cancelled gate turns the integrator away, granted or not.
TurnAway ==
  /\ phase \in {"ask", "granted"}
  /\ cancelled
  /\ phase' = "stopped"
  /\ UNCHANGED <<held, credit, cancelled>>

\* The integration reaches its end, or fails.
Leave ==
  /\ phase = "work"
  /\ phase' = "stopped"
  /\ UNCHANGED <<held, credit, cancelled>>

GateNext ==
  \/ Cancel \/ Pause \/ Resume \/ Step
  \/ Ask \/ Grant \/ Enter \/ TurnAway \/ Leave

GateSpec == GateInit /\ [][GateNext]_gateVars

=============================================================================
