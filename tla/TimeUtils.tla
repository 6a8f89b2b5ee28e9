------------------------------ MODULE TimeUtils ------------------------------
(***************************************************************************)
(* MAIN's unsigned millisecond clock (firmware/main_esp32/src/TimeUtils.h). *)
(* millis() is a uint32_t and wraps after 49.7 days; every age and every    *)
(* deadline of the firmware is computed with these three helpers.           *)
(***************************************************************************)
EXTENDS Integers

CONSTANT ClockModulus   \* 2^32 on the ESP32

ASSUME ClockModulusAssumption == ClockModulus \in Nat \ {0}

Clock == 0 .. ClockModulus - 1

\* Faulty variant: signed subtraction.
elapsedMsSigned(now, then) == now - then

\* now + d in unsigned arithmetic, for 0 <= d <= ClockModulus.
Later(now, d) ==
    IF now + d < ClockModulus THEN now + d ELSE now + d - ClockModulus

\* static_cast<uint32_t>(now - then): the difference borrows the modulus.
elapsedMs(now, then) ==
    IF now >= then THEN now - then ELSE now - then + ClockModulus

intervalElapsed(now, then, interval) == elapsedMs(now, then) >= interval

\* static_cast<int32_t>(now - deadline) >= 0: the near half of the circle.
timeReached(now, deadline) == 2 * elapsedMs(now, deadline) < ClockModulus

=============================================================================
