------------------------------- MODULE Processor -------------------------------
(***************************************************************************)
(* Processor: what the execution of a native program promises.  Once the   *)
(* program was entered, every step is the effect of the instruction at the *)
(* address in rip, as the processor and the kernel have it.                *)
(***************************************************************************)
EXTENDS X86

CONSTANT
  Text    \* the instructions at their addresses

VARIABLE
  state   \* the machine between two instructions

Off == [reg |-> << >>, mem |-> << >>, blocks |-> {}, streams |-> << >>, error |-> "off"]

Init == state = Off

Enter == state.error = "off" /\ state'.error = ""

ExecuteNative ==
  /\ state.error = "" /\ Address(state, RIP) \in DOMAIN Text
  /\ \E outcome \in {Effect(Text[Address(state, RIP)], state)} :
       outcome.cpu.error = "" /\ Equivalent(state', outcome.cpu, outcome.undefined)

Next == Enter \/ ExecuteNative

Spec == Init /\ [][Next]_state
=============================================================================
