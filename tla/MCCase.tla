------------------------------- MODULE MCCase -------------------------------
(* Small instances of the case service for TLC. *)
EXTENDS CaseInvariant, Register

CONSTANTS h1, h2

OneHandler == {h1}
TwoHandlers == {h1, h2}

LiveOff == {FALSE}
LiveOnOrOff == {FALSE, TRUE}

\* One request at a time: every report, a window of one day in India and of two
\* elsewhere, so that one clock is due on a day the other is not, and answers
\* dated before the filing and after the last day.
AllReports == [voice : BOOLEAN, something_else : BOOLEAN]
TwoAuthorities == {[response_window_days |-> 1, country |-> "IN"],
                   [response_window_days |-> 2, country |-> "elsewhere"]}
EarlyAndLate == {-1, 5}

\* Two requests racing, which multiplies the states: one report, which may fail
\* on its voice note, one authority, one early date.
VoiceOnly == {[voice |-> TRUE, something_else |-> FALSE]}
OneAuthority == {[response_window_days |-> 1, country |-> "IN"]}
Early == {-1}
=============================================================================
