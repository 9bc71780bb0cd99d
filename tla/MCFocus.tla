------------------------------- MODULE MCFocus -------------------------------
(***************************************************************************)
(* Variables for models that check several components side by side.  The    *)
(* components share no state, so a behaviour chooses in its initial state   *)
(* the one that moves, `focus`, and x1, x2, ... stand for the variables of  *)
(* that component: the states are the sum of the components' and not the    *)
(* product.                                                                 *)
(***************************************************************************)
EXTENDS Integers

VARIABLES focus,
          x1, x2, x3, x4, x5, x6, x7, x8, x9, x10, x11, x12,
          x13, x14, x15, x16, x17, x18, x19, x20, x21, x22, x23, x24

\* The variables from one on, and those a smaller component leaves blank.
From24 == <<x24>>
From23 == <<x23, From24>>
From22 == <<x22, From23>>
From21 == <<x21, From22>>
From20 == <<x20, From21>>
From19 == <<x19, From20>>
From18 == <<x18, From19>>
From17 == <<x17, From18>>
From16 == <<x16, From17>>
From15 == <<x15, From16>>
From14 == <<x14, From15>>
From13 == <<x13, From14>>
From12 == <<x12, From13>>
From11 == <<x11, From12>>
From10 == <<x10, From11>>
From9 == <<x9, From10>>
From8 == <<x8, From9>>
From7 == <<x7, From8>>
From6 == <<x6, From7>>
From5 == <<x5, From6>>
From4 == <<x4, From5>>
From3 == <<x3, From4>>
From2 == <<x2, From3>>

Blank24 == x24 = 0
Blank23 == x23 = 0 /\ Blank24
Blank22 == x22 = 0 /\ Blank23
Blank21 == x21 = 0 /\ Blank22
Blank20 == x20 = 0 /\ Blank21
Blank19 == x19 = 0 /\ Blank20
Blank18 == x18 = 0 /\ Blank19
Blank17 == x17 = 0 /\ Blank18
Blank16 == x16 = 0 /\ Blank17
Blank15 == x15 = 0 /\ Blank16
Blank14 == x14 = 0 /\ Blank15
Blank13 == x13 = 0 /\ Blank14
Blank12 == x12 = 0 /\ Blank13
Blank11 == x11 = 0 /\ Blank12
Blank10 == x10 = 0 /\ Blank11
Blank9 == x9 = 0 /\ Blank10
Blank8 == x8 = 0 /\ Blank9
Blank7 == x7 = 0 /\ Blank8
Blank6 == x6 = 0 /\ Blank7
Blank5 == x5 = 0 /\ Blank6
Blank4 == x4 = 0 /\ Blank5
Blank3 == x3 = 0 /\ Blank4
Blank2 == x2 = 0 /\ Blank3

all == <<focus, x1, From2>>
==============================================================================
