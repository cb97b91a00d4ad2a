----------------------------- MODULE Timestamps -----------------------------
(***************************************************************************)
(* The conversions between struct timespec and PostgreSQL's timestamp,     *)
(* which is a signed number of microseconds since 2000-01-01 that pgsql.c  *)
(* handles as an unsigned word.                                            *)
(***************************************************************************)
EXTENDS Integers

CONSTANTS Words,       \* 2^64: a word is a number below Words
          Epoch,       \* POSTGRES_EPOCH_DATE, in seconds since 1970
          PerSecond,   \* 10^6 ticks in a second
          PerTick      \* 1000 nanoseconds in a tick

ASSUME TimeAssumption ==
  /\ Words \in Nat \ {0}
  /\ Epoch \in Nat
  /\ PerSecond \in Nat \ {0}
  /\ PerTick \in Nat \ {0}

Timespec == [sec : Int, nsec : 0 .. PerSecond * PerTick - 1]

\* Mutant: the difference is computed without wrapping around.
ConvertSigned(t) == (t.sec - Epoch) * PerSecond + t.nsec \div PerTick

\* Mutant: the remainder is taken for nanoseconds.
ConvertTicks(raw) ==
  [sec |-> Epoch + raw \div PerSecond, nsec |-> raw % PerSecond]

\* Unsigned arithmetic wraps around.
convert_to_timestamp(t) ==
  ((t.sec - Epoch) * PerSecond + t.nsec \div PerTick) % Words

convert_from_timestamp(raw) ==
  [sec |-> Epoch + raw \div PerSecond, nsec |-> (raw % PerSecond) * PerTick]

(***************************************************************************)
(* What is meant: the server takes the word for a signed number of ticks.  *)
(***************************************************************************)
Ticks(t) == (t.sec - Epoch) * PerSecond + t.nsec \div PerTick

Signed(raw) == IF 2 * raw < Words THEN raw ELSE raw - Words

\* Times that PostgreSQL can store.
Storable(t) == 2 * Ticks(t) >= -Words /\ 2 * Ticks(t) < Words

\* The time to the tick.
Truncated(t) == [t EXCEPT !.nsec = (@ \div PerTick) * PerTick]
=============================================================================
