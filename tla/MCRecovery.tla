----------------------------- MODULE MCRecovery -----------------------------
EXTENDS Recovery

Native(ops) == {[op |-> o, by |-> 0] : o \in ops}

\* Conditional jumps over the next instruction, jumps one back.
Jumps == {[op |-> "jne", by |-> 2], [op |-> "jmp", by |-> -1]}

\* The programs of two instructions out of S followed by an exit.
WithExit(S) ==
  {[a \in 0..2 |-> IF a = 0 THEN f ELSE IF a = 1 THEN g ELSE [op |-> "exit", by |-> 0]] :
     f, g \in S}

SmallImages ==
  WithExit(Native({"nop", "jmpreg", "ret", "cmov32", "unsupported", "undecodable"}) \cup Jumps)

Undecodable == WithExit(Native({"nop", "undecodable"}))

\* Conditional moves of registers of 8 bytes.
WideMoves == WithExit(Native({"nop", "cmov64"}))
=============================================================================
