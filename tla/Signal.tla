-------------------------------- MODULE Signal --------------------------------
(***************************************************************************)
(* dbm_level_to_quality of nl80211/scan.rs, step by step: the strength of  *)
(* a signal, in hundredths of a dBm, as a percentage.  The f64 of the code *)
(* are integers here, in the unit that each comment names.                 *)
(***************************************************************************)
EXTENDS Integers

Clamp(n, low, high) == IF n < low THEN low ELSE IF n > high THEN high ELSE n
Abs(n) == IF n < 0 THEN -n ELSE n

UnclampedAttenuation(signal) == Abs(signal + 4000)     \* val is not clamped

\* What is missing to -40 dBm, in hundredths of a dB.
Attenuation(signal) == Abs(Clamp(signal, -10000, -4000) + 4000)

\* 100 - (100 * val) / 60, in sixtieths of a percent.
Scaled(signal) == 6000 - Attenuation(signal)

\* round, of n sixtieths.  f64 does not compute them exactly: a value half way
\* between two percentages is rounded down or up, depending on the error
\* (-99.70 dBm gives 1, -97.90 dBm gives 3); no other value is near enough to
\* the middle for the error to matter.
Rounded(n) == {(n + 29) \div 60, (n + 30) \div 60}

\* The cast of an f64 to u8 saturates.
AsU8(n) == Clamp(n, 0, 255)

\* The percentages the function may return.
Qualities(signal) == {AsU8(Clamp(q, 0, 100)) : q \in Rounded(Scaled(signal))}
===============================================================================
