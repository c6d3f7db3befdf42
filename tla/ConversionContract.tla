-------------------------- MODULE ConversionContract --------------------------
(***************************************************************************)
(* What common.ToIR promises, without the way it computes it: one step     *)
(* takes the set of Ingresses that were read to one outcome.  The outcome  *)
(* is a function of the set, so an implementation of this module gives the *)
(* same IR whatever order Go iterates over its maps in and wherever its    *)
(* unstable sort leaves Ingresses of the same name.                        *)
(***************************************************************************)
CONSTANTS
  Inputs,       \* the sets of Ingresses that may have been read
  Outcome(_),   \* what each of them is converted to
  NoResult      \* the outcome until then

VARIABLES ingresses, outcome

Init == ingresses \in Inputs /\ outcome = NoResult

Convert ==
  /\ outcome = NoResult /\ outcome' # NoResult
  /\ outcome' = Outcome(ingresses)
  /\ UNCHANGED ingresses

Spec == Init /\ [][Convert]_<<ingresses, outcome>>
===============================================================================
