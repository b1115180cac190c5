---------------------------- MODULE MCAdmission ----------------------------
(* RTSettings for TLC, with the limits of the checks among them.            *)
EXTENDS Admission

Single(n)   == [dashes |-> 0, first |-> n, last |-> NoNumber]
Range2(m, n) == [dashes |-> 1, first |-> m, last |-> n]

\* The ratio of 95 % exactly; a runtime that rounds to nothing and one above the
\* ratio; a period no runtime fits.
MCSettings == {
    [period |-> 100, low |-> 50, hi |-> 95, core |-> <<Single(0), Range2(2, 4)>>],
    [period |-> 9000, low |-> 1, hi |-> 9, core |-> <<Range2(NoNumber, 1)>>],
    [period |-> 100, low |-> 50, hi |-> 96, core |-> <<Single(1)>>],
    [period |-> 0, low |-> 1, hi |-> 1, core |-> <<Single(NoNumber)>>]}
=============================================================================
