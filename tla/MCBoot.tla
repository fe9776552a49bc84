------------------------------- MODULE MCBoot -------------------------------
(* Boot on two words of .data, a word of padding, three of .bss, padding,  *)
(* and four words of RAM behind them, two of them reserved for the stack.  *)
EXTENDS Boot

MCImage == [a \in Data |-> IF a = SystemCoreClock THEN 12000 ELSE 5]
MCIncrements == {-1, 0, 1, 3}
=============================================================================
