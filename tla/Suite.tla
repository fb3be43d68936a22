------------------------------- MODULE Suite --------------------------------
(***************************************************************************)
(* What the suites for model checking share.  A behaviour of a suite is    *)
(* one of its components, which the variable part names; the component's   *)
(* variables are the first of fifteen, in the order in which its module    *)
(* declares them, and the others stay 0.                                   *)
(***************************************************************************)
EXTENDS Integers

VARIABLES part, s1, s2, s3, s4, s5, s6, s7, s8, s9, s10, s11, s12, s13, s14, s15

rest14 == <<s15>>
rest13 == <<s14, rest14>>
rest12 == <<s13, rest13>>
rest11 == <<s12, rest12>>
rest10 == <<s11, rest11>>
rest9 == <<s10, rest10>>
rest8 == <<s9, rest9>>
rest7 == <<s8, rest8>>
rest6 == <<s7, rest7>>
rest5 == <<s6, rest6>>
rest4 == <<s5, rest5>>
rest3 == <<s4, rest4>>
vars == <<part, s1, s2, s3, rest3>>

Unused14 == s15 = 0
Unused13 == s14 = 0 /\ Unused14
Unused12 == s13 = 0 /\ Unused13
Unused11 == s12 = 0 /\ Unused12
Unused10 == s11 = 0 /\ Unused11
Unused9 == s10 = 0 /\ Unused10
Unused8 == s9 = 0 /\ Unused9
Unused7 == s8 = 0 /\ Unused8
Unused6 == s7 = 0 /\ Unused7
Unused5 == s6 = 0 /\ Unused6
Unused4 == s5 = 0 /\ Unused5
Unused3 == s4 = 0 /\ Unused4
=============================================================================
