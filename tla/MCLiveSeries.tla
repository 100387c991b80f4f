---------------------------- MODULE MCLiveSeries ----------------------------
(* An instance of LiveSeries for TLC. *)
EXTENDS LiveSeries, FiniteSets

\* Models whose names repeat between the kinds, fill the columns exactly, fill
\* more than them, or leave one kind empty.
Models == {
  [out |-> <<"y">>, state |-> <<"x", "y">>, disc |-> <<>>],
  [out |-> <<"y">>, state |-> <<"y">>, disc |-> <<"y", "z">>],
  [out |-> <<>>, state |-> <<"x">>, disc |-> <<"x">>],
  [out |-> <<"x", "y">>, state |-> <<"z">>, disc |-> <<"x">>]}
=============================================================================
